---- MODULE Spec2Model ----
(***************************************************************************)
(* A model of avt_gameplay_utils.py: the hexagonal Vector class (parsing   *)
(* of vector strings, canonical major/minor/vertical decomposition,        *)
(* arithmetic, formatting, bearing, movement grid) and the AVID window     *)
(* class (parsing, canonical labels and offset rings), shellstar, the     *)
(* flight of a projectile to a moving target and its report, and the       *)
(* conversion of two map locations to a Vector under the tile radius.      *)
(*                                                                         *)
(* Python strings are sequences of one-character strings, so that parsing  *)
(* and formatting are computed character by character.  A Vector instance  *)
(* is its _uvp_vectors dictionary, a record [U, V, P] (P is the '+' key).  *)
(***************************************************************************)
EXTENDS Integers, Sequences, FiniteSets, TLC

VARIABLES
    vecs,     \* the Vector instances alive, in order of construction
    avids,    \* the AVID instances alive, in order of construction
    call,     \* the last call made: [op, s, i, j, count, dist, mv, segment,
              \* r, tiles]
    ret,      \* what it returned or raised: [kind, val]
    shell,    \* the local variables of the shellstar call in progress, and
              \* pc, the place the call has come to
    TILE_RADIUS   \* the module's global _TILE_RADIUS

vars == <<vecs, avids, call, ret, shell, TILE_RADIUS>>

----------------------------------------------------------------------------
(* Bounds of the model *)

MaxVecs == 3        \* Vector instances alive at once
MaxMag == 2         \* largest magnitude of a token typed in Spec
MaxStrLen == 5      \* longest vector string typed in SpecParse
MaxCoord == 8       \* largest |U|, |V|, |P| drawn in SpecVector
MaxLabelLen == 5    \* longest window label typed in SpecAVID
MaxAvids == 2       \* AVID instances alive at once
MaxShellCoord == 2  \* largest |U|, |V|, |P| of the vector to the target
MaxElapsed == 32    \* segments of flight followed in SpecShell
MaxTileVecs == 1    \* vectors of get_bearing_vector_from_tile kept in SpecTile

----------------------------------------------------------------------------
(* Python string primitives *)

Digits == <<"0", "1", "2", "3", "4", "5", "6", "7", "8", "9">>
Lowers == <<"a", "b", "c", "d", "e", "f", "g", "h", "i", "j", "k", "l", "m",
            "n", "o", "p", "q", "r", "s", "t", "u", "v", "w", "x", "y", "z">>
Uppers == <<"A", "B", "C", "D", "E", "F", "G", "H", "I", "J", "K", "L", "M",
            "N", "O", "P", "Q", "R", "S", "T", "U", "V", "W", "X", "Y", "Z">>

DigitSet == {Digits[k] : k \in 1..Len(Digits)}
DigitValues == [c \in DigitSet |-> (CHOOSE k \in 1..Len(Digits) : Digits[k] = c) - 1]

IsDigit(c) == c \in DigitSet
DigitVal(c) == DigitValues[c]

LowerSet == {Lowers[k] : k \in 1..Len(Lowers)}
UpperOf == [c \in LowerSet |-> Uppers[CHOOSE k \in 1..Len(Lowers) : Lowers[k] = c]]

\* str.upper() on one character
UpperChar(c) == IF c \in LowerSet THEN UpperOf[c] ELSE c

\* str.upper()
Upper(s) == [k \in 1..Len(s) |-> UpperChar(s[k])]

\* s[::-1]
Reverse(s) == [k \in 1..Len(s) |-> s[Len(s) + 1 - k]]

\* s.endswith(t)
EndsWith(s, t) ==
    /\ Len(s) >= Len(t)
    /\ SubSeq(s, Len(s) - Len(t) + 1, Len(s)) = t

\* s[:-n]
DropLast(s, n) == SubSeq(s, 1, Len(s) - n)

\* c * n for a one-character string c
Repeat(c, n) == [k \in 1..n |-> c]

\* x in list
InSeq(x, list) == \E k \in 1..Len(list) : list[k] = x

\* str.split(): the maximal runs of non-blank characters, in order
RECURSIVE SplitFrom(_, _, _, _)
SplitFrom(s, k, cur, acc) ==
    IF k > Len(s)
    THEN IF cur = <<>> THEN acc ELSE Append(acc, cur)
    ELSE IF s[k] = " "
         THEN SplitFrom(s, k + 1, <<>>, IF cur = <<>> THEN acc ELSE Append(acc, cur))
         ELSE SplitFrom(s, k + 1, Append(cur, s[k]), acc)

Split(s) == SplitFrom(s, 1, <<>>, <<>>)

\* sep.join(list)
RECURSIVE Join(_, _)
Join(sep, list) ==
    IF list = <<>> THEN <<>>
    ELSE IF Len(list) = 1 THEN list[1]
    ELSE list[1] \o sep \o Join(sep, Tail(list))

\* str(n) for an integer n >= 0 (also str of an integral Decimal)
RECURSIVE NatToStr(_)
NatToStr(n) ==
    IF n < 10 THEN <<Digits[n + 1]>>
    ELSE Append(NatToStr(n \div 10), Digits[(n % 10) + 1])

\* the value of a run of decimal digits
RECURSIVE DigitsToNat(_)
DigitsToNat(s) ==
    IF s = <<>> THEN 0
    ELSE 10 * DigitsToNat(DropLast(s, 1)) + DigitVal(s[Len(s)])

AllDigits(s) == s /= <<>> /\ \A k \in 1..Len(s) : IsDigit(s[k])

\* int(s): an optional sign and at least one digit; anything else raises
\* ValueError
IntParses(s) ==
    \/ AllDigits(s)
    \/ Len(s) >= 2 /\ s[1] \in {"+", "-"} /\ AllDigits(Tail(s))

IntValue(s) ==
    IF s[1] = "-" THEN 0 - DigitsToNat(Tail(s))
    ELSE IF s[1] = "+" THEN DigitsToNat(Tail(s))
    ELSE DigitsToNat(s)

----------------------------------------------------------------------------
(* Module-level tables and helpers of the Vector class *)

CARDINAL_H == <<"A", "B", "C", "D", "E", "F">>
CARDINAL_V == <<"+", "-">>
CARDINALS == CARDINAL_H \o CARDINAL_V

CardinalSet == {CARDINALS[k] : k \in 1..Len(CARDINALS)}

\* the place of a horizontal direction in _CARDINAL_H, which is its place
\* in the alphabet: the order in which Python compares the letters
HIndex(d) == CHOOSE k \in 1..Len(CARDINAL_H) : CARDINAL_H[k] = d

\* dict(zip(_CARDINALS, (Decimal(0) ...)))
ZeroVectors == [d \in CardinalSet |-> 0]

uvp_from_vectors(vectors) ==
    LET u0 == 0
        v0 == 0
        u1 == IF vectors["B"] /= 0 THEN u0 + vectors["B"] ELSE u0
        v1 == IF vectors["B"] /= 0 THEN v0 - vectors["B"] ELSE v0
        u2 == IF vectors["E"] /= 0 THEN u1 - vectors["E"] ELSE u1
        v2 == IF vectors["E"] /= 0 THEN v1 + vectors["E"] ELSE v1
        v3 == v2 + vectors["D"]
        v4 == v3 - vectors["A"]
        u3 == u2 + vectors["C"]
        u4 == u3 - vectors["F"]
    IN  [U |-> u4, V |-> v4, P |-> vectors["+"] - vectors["-"]]

place_in_vector(d, magnitude, pos_dir, neg_dir) ==
    IF magnitude > 0 THEN [d EXCEPT ![pos_dir] = magnitude]
    ELSE IF magnitude < 0 THEN [d EXCEPT ![neg_dir] = 0 - magnitude]
    ELSE d

\* consolidate_120 without line 93: the lesser direction is not zeroed
consolidate_120_KeepLesser(d, dccw, dir, d_cw) ==
    LET v_cw == d[d_cw]
        vccw == d[dccw]
    IN  IF v_cw > 0 /\ vccw >= v_cw
        THEN [d EXCEPT ![dir] = v_cw, ![dccw] = vccw - v_cw]
        ELSE IF vccw > 0 /\ v_cw >= vccw
        THEN [d EXCEPT ![dir] = vccw, ![d_cw] = v_cw - vccw]
        ELSE d

consolidate_120(d, dccw, dir, d_cw) ==
    LET v_cw == d[d_cw]
        vccw == d[dccw]
    IN  IF v_cw > 0 /\ vccw >= v_cw
        THEN [d EXCEPT ![dir] = v_cw, ![d_cw] = 0, ![dccw] = vccw - v_cw]
        ELSE IF vccw > 0 /\ v_cw >= vccw
        THEN [d EXCEPT ![dir] = vccw, ![dccw] = 0, ![d_cw] = v_cw - vccw]
        ELSE d

vectors_from_uvp(uvp) ==
    LET d1 == place_in_vector(ZeroVectors, uvp.P, "+", "-")
        d2 == place_in_vector(d1, uvp.U, "C", "F")
        d3 == place_in_vector(d2, uvp.V, "D", "A")
        d4 == consolidate_120(d3, "A", "B", "C")
    IN  consolidate_120(d4, "D", "E", "F")

----------------------------------------------------------------------------
(* Vector.__init__ *)

\* the for loop over vecstr.strip().split(): the vectors dictionary it
\* leaves, or raised = TRUE when a token makes the loop raise ValueError
RaisedInLoop == [raised |-> TRUE, vectors |-> ZeroVectors]

\* the loop without the check of `seen`: a repeated direction overwrites
RECURSIVE InitLoop_NoSeen(_, _, _, _)
InitLoop_NoSeen(elems, k, vectors, seen) ==
    IF k > Len(elems) THEN [raised |-> FALSE, vectors |-> vectors]
    ELSE LET elem == elems[k]
             pre == DropLast(elem, 1)
             dir == UpperChar(elem[Len(elem)])
         IN  IF ~IntParses(pre) THEN RaisedInLoop
             ELSE IF IntValue(pre) < 0 THEN RaisedInLoop
             ELSE IF dir \notin CardinalSet THEN RaisedInLoop
             ELSE InitLoop_NoSeen(elems, k + 1,
                                  [vectors EXCEPT ![dir] = IntValue(pre)],
                                  seen \cup {dir})

RECURSIVE InitLoop(_, _, _, _)
InitLoop(elems, k, vectors, seen) ==
    IF k > Len(elems) THEN [raised |-> FALSE, vectors |-> vectors]
    ELSE LET elem == elems[k]
             pre == DropLast(elem, 1)
             dir == UpperChar(elem[Len(elem)])
         IN  IF ~IntParses(pre) THEN RaisedInLoop
             ELSE IF IntValue(pre) < 0 THEN RaisedInLoop
             ELSE IF dir \in seen THEN RaisedInLoop
             ELSE IF dir \notin CardinalSet THEN RaisedInLoop
             ELSE InitLoop(elems, k + 1,
                           [vectors EXCEPT ![dir] = IntValue(pre)],
                           seen \cup {dir})

\* Vector(vecstr): [kind |-> "Vector", val |-> _uvp_vectors] or
\* [kind |-> "raise", val |-> "ValueError"]
VectorNew(vecstr) ==
    LET r == InitLoop(Split(vecstr), 1, ZeroVectors, {})
    IN  IF r.raised
        THEN [kind |-> "raise", val |-> "ValueError"]
        ELSE [kind |-> "Vector", val |-> uvp_from_vectors(r.vectors)]

----------------------------------------------------------------------------
(* Vector._major_minor_vertical, __str__, __add__, __sub__ *)

\* the loop over _CARDINAL_H: <<major, minor>>, each <<magnitude, direction>>
RECURSIVE MajorMinorLoop(_, _, _, _)
MajorMinorLoop(vectors, k, major, minor) ==
    IF k > Len(CARDINAL_H) THEN <<major, minor>>
    ELSE LET dir == CARDINAL_H[k]
             magnitude == vectors[dir]
         IN  IF magnitude > major[1]
             THEN MajorMinorLoop(vectors, k + 1, <<magnitude, dir>>,
                                 IF major[1] > minor[1] THEN major ELSE minor)
             ELSE IF magnitude > minor[1]
             THEN MajorMinorLoop(vectors, k + 1, major, <<magnitude, dir>>)
             ELSE MajorMinorLoop(vectors, k + 1, major, minor)

\* the loop over ['-', '+']
VerticalLoop(vectors) ==
    LET v0 == <<0, "+">>
        v1 == IF vectors["-"] > v0[1] THEN <<vectors["-"], "-">> ELSE v0
    IN  IF vectors["+"] > v1[1] THEN <<vectors["+"], "+">> ELSE v1

major_minor_vertical(uvp) ==
    LET vectors == vectors_from_uvp(uvp)
        mm == MajorMinorLoop(vectors, 1, <<0, "A">>, <<0, "A">>)
    IN  [major |-> mm[1], minor |-> mm[2], vertical |-> VerticalLoop(vectors)]

\* "{}{}".format(magnitude, direction)
Component(c) == Append(NatToStr(c[1]), c[2])

STILL == <<"S", "T", "I", "L", "L">>

VectorStr(uvp) ==
    LET mmv == major_minor_vertical(uvp)
    IN  IF mmv.major[1] = 0
        THEN IF mmv.vertical[1] = 0 THEN STILL ELSE Component(mmv.vertical)
        ELSE Join(<<" ">>,
                  <<Component(mmv.major)>>
                  \o (IF mmv.minor[1] > 0 THEN <<Component(mmv.minor)>> ELSE <<>>)
                  \o (IF mmv.vertical[1] > 0 THEN <<Component(mmv.vertical)>> ELSE <<>>))

VectorAddUVP(self, other) ==
    [U |-> self.U + other.U, V |-> self.V + other.V, P |-> self.P + other.P]

\* __sub__ with the '+' key copied from __add__
VectorSubUVP_AddsVertical(self, other) ==
    [U |-> self.U - other.U, V |-> self.V - other.V, P |-> self.P + other.P]

VectorSubUVP(self, other) ==
    [U |-> self.U - other.U, V |-> self.V - other.V, P |-> self.P - other.P]

----------------------------------------------------------------------------
(* Decimal arithmetic of bearing                                           *)
(*                                                                         *)
(* Magnitudes are integral Decimals.  The only other Decimals are 0.5 and  *)
(* Decimal(sin(pi/3)), the double 0.86602540378443859658..., which lies    *)
(* below sqrt(3)/2 = 0.86602540378443864676...: its square is              *)
(* 0.74999999999999991309..., less than 3/4 by 8.7e-17.  The model holds   *)
(* a squared distance as an integer numerator over DecimalDen and the      *)
(* square of sin(pi/3) as (3*DecimalScale - 1)/(4*DecimalScale): less than *)
(* 3/4 by a deficit that, like the real one, is smaller than any           *)
(* difference between two of the integers the code compares.  A            *)
(* comparison of square roots is made on the squares.                      *)

DecimalScale == 10000
DecimalDen == 4 * DecimalScale
Sin60SqNum == 3 * DecimalScale - 1

\* h_dist squared, times DecimalDen
HDistSq(major, minor, count) ==
    IF count
    THEN DecimalDen * (major[1] + minor[1]) * (major[1] + minor[1])
    ELSE DecimalScale * (2 * major[1] + minor[1]) * (2 * major[1] + minor[1])
         + minor[1] * minor[1] * Sin60SqNum

\* floor(sqrt(x) + Decimal('0.5')) for x = num / DecimalDen, the distance
\* being at most `most`
FloorSqrtPlusHalf(num, most) ==
    CHOOSE k \in 0..most :
        /\ (2 * k + 1) * (2 * k + 1) * DecimalDen > 4 * num
        /\ k > 0 => (2 * k - 1) * (2 * k - 1) * DecimalDen <= 4 * num

----------------------------------------------------------------------------
(* Vector.bearing *)

NONE == <<"N", "O", "N", "E">>

\* lines 280-286: the window's direction label
BearingDir(major, minor) ==
    IF minor[1] * 3 >= major[1]
    THEN LET swap == HIndex(minor[2]) < HIndex(major[2])
             dir0 == IF swap THEN minor[2] ELSE major[2]
             dir1 == IF swap THEN major[2] ELSE minor[2]
         IN  <<dir0, "/", dir1>>
    ELSE <<major[2]>>

\* lines 288-295: deviations from horizontal
BearingHeight(h_sq, v_dist) ==
    LET v_sq == v_dist * v_dist * DecimalDen
    IN  (IF 16 * v_sq > h_sq THEN 1 ELSE 0)
        + (IF v_sq > h_sq THEN 1 ELSE 0)
        + (IF v_sq >= 16 * h_sq THEN 1 ELSE 0)

\* line 300 without the + Decimal('0.5'): the distance is cut, not rounded
BearingDist_Truncated(h_sq, v_dist, most) ==
    LET num == h_sq + v_dist * v_dist * DecimalDen
    IN  CHOOSE k \in 0..most :
            /\ (k + 1) * (k + 1) * DecimalDen > num
            /\ k * k * DecimalDen <= num

\* lines 299-300
BearingDist(h_sq, v_dist, most) ==
    FloorSqrtPlusHalf(h_sq + v_dist * v_dist * DecimalDen, most)

\* bearing(count).  `vertical[1] is '+'` compares one-character strings,
\* which CPython interns: it is the comparison by value.
VectorBearing(uvp, count) ==
    LET mmv == major_minor_vertical(uvp)
        major == mmv.major
        minor == mmv.minor
        vertical == mmv.vertical
        h_sq == HDistSq(major, minor, count)
    IN  IF major[1] = 0
        THEN IF vertical[1] = 0
             THEN NONE
             ELSE NatToStr(vertical[1]) \o <<" ">>
                  \o (IF vertical[2] = "+" THEN Repeat("+", 3) ELSE Repeat("-", 3))
        ELSE LET v_dist == vertical[1]
                 height == BearingHeight(h_sq, v_dist)
                 dir == IF height = 3 THEN <<>> ELSE BearingDir(major, minor)
                 dist == BearingDist(h_sq, v_dist,
                                     major[1] + minor[1] + vertical[1] + 1)
             IN  NatToStr(dist) \o <<" ">> \o dir \o Repeat(vertical[2], height)

----------------------------------------------------------------------------
(* Vector.movement_grid                                                    *)
(*                                                                         *)
(* The remainder tables of movement_grid_remainders are not part of the    *)
(* sources: a row of the grid holds its segment number and the keys with   *)
(* which HORIZONTAL and VERTICAL are indexed for it.                       *)

\* s.split(sep) for a one-character separator: empty fields are kept
RECURSIVE SplitOnFrom(_, _, _, _, _)
SplitOnFrom(s, sep, k, cur, acc) ==
    IF k > Len(s) THEN Append(acc, cur)
    ELSE IF s[k] = sep
         THEN SplitOnFrom(s, sep, k + 1, <<>>, Append(acc, cur))
         ELSE SplitOnFrom(s, sep, k + 1, Append(cur, s[k]), acc)

SplitOn(s, sep) == SplitOnFrom(s, sep, 1, <<>>, <<>>)

\* lines 325-336 without the `-= each * 8`: the whole magnitude is the key
GridColumn_KeepsMagnitude(c) ==
    IF c[1] > 0
    THEN <<(<<c[2]>>), NatToStr(c[1] \div 8), c[1]>>
    ELSE <<(<<" ">>), (<<" ">>), c[1]>>

\* lines 325-336 for one column: <<direction, each, remainder>>
GridColumn(c) ==
    IF c[1] > 0
    THEN <<(<<c[2]>>), NatToStr(c[1] \div 8), c[1] - (c[1] \div 8) * 8>>
    ELSE <<(<<" ">>), (<<" ">>), c[1]>>

\* h_sum after the while loop of lines 349-351
HSum(v_maj, v_min) ==
    IF v_maj + v_min > 7 THEN v_maj + v_min - 8 ELSE v_maj + v_min

MovementGrid(uvp) ==
    LET mmv == major_minor_vertical(uvp)
    IN  IF mmv.major[1] = 0 /\ mmv.vertical[1] = 0
        THEN [kind |-> "str", val |-> STILL]
        ELSE LET maj == GridColumn(mmv.major)
                 min == GridColumn(mmv.minor)
                 vert == GridColumn(mmv.vertical)
                 bar == <<"|">>
                 header ==
                    << Join(bar, << (<<" ">>), maj[1], min[1], vert[1], (<<>>) >>),
                       Join(bar, << (<<" ">>), maj[2], min[2], vert[2], (<<>>) >>) >>
                 grid ==
                    [i \in 1..8 |->
                        [seg |-> NatToStr(i),
                         h |-> <<maj[3], min[3], i - 1>>,
                         v |-> <<HSum(maj[3], min[3]), vert[3], i - 1>>]]
             IN  [kind |-> "grid", val |-> [header |-> header, grid |-> grid]]

----------------------------------------------------------------------------
(* class AVID *)

WINDOWS_H ==
    << <<"A">>, <<"A", "/", "B">>, <<"B">>, <<"B", "/", "C">>,
       <<"C">>, <<"C", "/", "D">>, <<"D">>, <<"D", "/", "E">>,
       <<"E">>, <<"E", "/", "F">>, <<"F">>, <<"F", "/", "A">> >>

Abs(n) == IF n < 0 THEN 0 - n ELSE n

\* _dir_vert_to_label with '+' for every ring: the sign of a negative ring
\* is lost
dir_vert_to_label_AlwaysPlus(direction, vertical) ==
    IF vertical = 3 THEN Repeat("+", 3)
    ELSE IF vertical = 0 - 3 THEN Repeat("-", 3)
    ELSE WINDOWS_H[direction + 1] \o Repeat("+", Abs(vertical))

\* directions count from 0 as in Python: WINDOWS_H[direction + 1]
dir_vert_to_label(direction, vertical) ==
    IF vertical = 3 THEN Repeat("+", 3)
    ELSE IF vertical = 0 - 3 THEN Repeat("-", 3)
    ELSE WINDOWS_H[direction + 1]
         \o Repeat(IF vertical < 0 THEN "-" ELSE "+", Abs(vertical))

\* lines 681-693: <<vert, label>> after the suffix is cut and the rest
\* upper-cased
StripSuffix(label) ==
    IF EndsWith(label, <<"+", "+">>) THEN <<2, Upper(DropLast(label, 2))>>
    ELSE IF EndsWith(label, <<"+">>) THEN <<1, Upper(DropLast(label, 1))>>
    ELSE IF EndsWith(label, <<"-", "-">>) THEN <<0 - 2, Upper(DropLast(label, 2))>>
    ELSE IF EndsWith(label, <<"-">>) THEN <<0 - 1, Upper(DropLast(label, 1))>>
    ELSE <<0, Upper(label)>>

\* lines 703-708: the first index at which the label stands in _WINDOWS_H,
\* or 0, the initial value of dir, when it stands nowhere
WindowIndex(label) ==
    IF InSeq(label, WINDOWS_H)
    THEN (CHOOSE i \in 1..Len(WINDOWS_H) :
             /\ WINDOWS_H[i] = label
             /\ \A j \in 1..(i - 1) : WINDOWS_H[j] /= label) - 1
    ELSE 0

AVIDRaise == [kind |-> "raise", val |-> "ValueError"]

AVIDObject(direction, vertical, label) ==
    [kind |-> "AVID",
     val |-> [direction |-> direction, vertical |-> vertical, label |-> label]]

\* AVID.__init__ without the second test of line 698: a reversed label is
\* taken as it is
AVIDNew_ReversedUnchecked(label) ==
    IF label = Repeat("+", 3) THEN AVIDObject(0, 3, label)
    ELSE IF label = Repeat("-", 3) THEN AVIDObject(0, 0 - 3, label)
    ELSE LET cut == StripSuffix(label)
             vert == cut[1]
             up == cut[2]
         IN  IF ~InSeq(up, WINDOWS_H) /\ ~InSeq("/", up)
             THEN AVIDRaise
             ELSE LET found == IF InSeq(up, WINDOWS_H) THEN up ELSE Reverse(up)
                      dir == WindowIndex(found) % 12
                  IN  AVIDObject(dir, vert, dir_vert_to_label(dir, vert))

\* AVID(label): the instance's direction, vertical and label, or ValueError
AVIDNew(label) ==
    IF label = Repeat("+", 3) THEN AVIDObject(0, 3, label)
    ELSE IF label = Repeat("-", 3) THEN AVIDObject(0, 0 - 3, label)
    ELSE LET cut == StripSuffix(label)
             vert == cut[1]
             up == cut[2]
         IN  IF ~InSeq(up, WINDOWS_H)
                /\ (~InSeq("/", up) \/ ~InSeq(Reverse(up), WINDOWS_H))
             THEN AVIDRaise
             ELSE LET found == IF InSeq(up, WINDOWS_H) THEN up ELSE Reverse(up)
                      dir == WindowIndex(found) % 12
                  IN  AVIDObject(dir, vert, dir_vert_to_label(dir, vert))

----------------------------------------------------------------------------
(* AVID.offset_ring                                                        *)
(*                                                                         *)
(* _OFFSETS: for each ring that is a key of the dictionary, the list (by   *)
(* offset distance, from 0) of the lists of (direction, height) offsets.   *)

\* amber ring: lines 397-444
OFFSETS_0 ==
    << << <<0, 0>> >>,
       << <<0, 1>>, <<0 - 1, 1>>, <<0 - 1, 0>>, <<0 - 1, 0 - 1>>,
            <<0, 0 - 1>>, <<1, 0 - 1>>, <<1, 0>>, <<1, 1>> >>,
       << <<0, 2>>, <<0 - 1, 2>>, <<0 - 2, 2>>, <<0 - 2, 1>>,
            <<0 - 2, 0>>, <<0 - 2, 0 - 1>>, <<0 - 2, 0 - 2>>, <<0 - 1, 0 - 2>>,
            <<0, 0 - 2>>, <<1, 0 - 2>>, <<2, 0 - 2>>, <<2, 0 - 1>>,
            <<2, 0>>, <<2, 1>>, <<2, 2>>, <<1, 2>> >>,
       << <<0, 3>>, <<0 - 3, 2>>, <<0 - 3, 1>>, <<0 - 3, 0>>,
            <<0 - 3, 0 - 1>>, <<0 - 3, 0 - 2>>, <<0, 0 - 3>>, <<3, 0 - 2>>,
            <<3, 0 - 1>>, <<3, 0>>, <<3, 1>>, <<3, 2>> >> >>

\* blue ring (+1): lines 445-495
OFFSETS_1 ==
    << << <<0, 0>> >>,
       << <<0, 1>>, <<0 - 1, 1>>, <<0 - 1, 0>>, <<0 - 1, 0 - 1>>,
            <<0, 0 - 1>>, <<1, 0 - 1>>, <<1, 0>>, <<1, 1>> >>,
       << <<0, 2>>, <<0 - 2, 1>>, <<0 - 2, 0>>, <<0 - 2, 0 - 1>>,
            <<0 - 2, 0 - 2>>, <<0 - 1, 0 - 2>>, <<0, 0 - 2>>, <<1, 0 - 2>>,
            <<2, 0 - 2>>, <<2, 0 - 1>>, <<2, 0>>, <<2, 1>> >>,
       << <<6, 1>>, <<0 - 5, 1>>, <<0 - 4, 1>>, <<0 - 3, 1>>,
            <<0 - 3, 0>>, <<0 - 3, 0 - 1>>, <<0 - 3, 0 - 2>>, <<0 - 3, 0 - 3>>,
            <<0 - 2, 0 - 3>>, <<0 - 1, 0 - 3>>, <<0, 0 - 3>>, <<1, 0 - 3>>,
            <<2, 0 - 3>>, <<3, 0 - 3>>, <<3, 0 - 2>>, <<3, 0 - 1>>,
            <<3, 0>>, <<3, 1>>, <<4, 0>>, <<5, 0>> >> >>

\* blue ring (-1): lines 496-524, offsets 0 to 2 only
OFFSETS_m1 ==
    << << <<0, 0>> >>,
       << <<0, 1>>, <<0 - 1, 1>>, <<0 - 1, 0>>, <<0 - 1, 0 - 1>>,
            <<0, 0 - 1>>, <<1, 0 - 1>>, <<1, 0>>, <<1, 1>> >>,
       << <<0, 2>>, <<0 - 1, 2>>, <<0 - 2, 2>>, <<0 - 2, 1>>,
            <<0 - 2, 0>>, <<0 - 2, 0 - 1>>, <<0, 0 - 2>>, <<2, 0 - 1>>,
            <<2, 0>>, <<2, 1>>, <<2, 2>>, <<1, 2>> >> >>

\* green ring (+2): lines 525-573
OFFSETS_2 ==
    << << <<0, 0>> >>,
       << <<0, 1>>, <<0 - 1, 0>>, <<0 - 2, 0>>, <<0 - 1, 0 - 1>>,
            <<0, 0 - 1>>, <<1, 0 - 1>>, <<2, 0>>, <<1, 0>> >>,
       << <<6, 0>>, <<0 - 5, 0>>, <<0 - 4, 0>>, <<0 - 3, 0>>,
            <<0 - 2, 0 - 1>>, <<0 - 2, 0 - 2>>, <<0 - 1, 0 - 2>>, <<0, 0 - 2>>,
            <<1, 0 - 2>>, <<2, 0 - 2>>, <<2, 0 - 1>>, <<3, 0>>,
            <<4, 0>>, <<5, 0>> >>,
       << <<6, 0 - 1>>, <<0 - 5, 0 - 1>>, <<0 - 4, 0 - 1>>, <<0 - 3, 0 - 1>>,
            <<0 - 3, 0 - 2>>, <<0 - 3, 0 - 3>>, <<0 - 2, 0 - 3>>, <<0 - 1, 0 - 3>>,
            <<0, 0 - 3>>, <<1, 0 - 3>>, <<2, 0 - 3>>, <<3, 0 - 3>>,
            <<3, 0 - 2>>, <<3, 0 - 1>>, <<4, 0 - 1>>, <<5, 0 - 1>> >> >>

\* green ring (-2): lines 574-604, offsets 0 to 2 only
OFFSETS_m2 ==
    << << <<0, 0>> >>,
       << <<0, 1>>, <<0 - 1, 1>>, <<0 - 2, 0>>, <<0 - 1, 0>>,
            <<0, 0 - 1>>, <<1, 0>>, <<2, 0>>, <<1, 1>> >>,
       << <<0, 2>>, <<0 - 1, 2>>, <<0 - 2, 2>>, <<0 - 2, 1>>,
            <<0 - 3, 0>>, <<0 - 4, 0>>, <<0 - 5, 0>>, <<6, 0>>,
            <<5, 0>>, <<4, 0>>, <<3, 0>>, <<2, 1>>,
            <<2, 2>>, <<1, 2>> >> >>

\* fuchsia (+/-3), absolute window tuples: lines 605-651
OFFSETS_3 ==
    << << <<0, 3>> >>,
       << <<0, 2>>, <<1, 2>>, <<2, 2>>, <<3, 2>>,
            <<4, 2>>, <<5, 2>>, <<6, 2>>, <<7, 2>>,
            <<8, 2>>, <<9, 2>>, <<10, 2>>, <<11, 2>> >>,
       << <<0, 1>>, <<1, 1>>, <<2, 1>>, <<3, 1>>,
            <<4, 1>>, <<5, 1>>, <<6, 1>>, <<7, 1>>,
            <<8, 1>>, <<9, 1>>, <<10, 1>>, <<11, 1>> >>,
       << <<0, 0>>, <<1, 0>>, <<2, 0>>, <<3, 0>>,
            <<4, 0>>, <<5, 0>>, <<6, 0>>, <<7, 0>>,
            <<8, 0>>, <<9, 0>>, <<10, 0>>, <<11, 0>> >> >>

\* the keys of the dictionary _OFFSETS
OFFSETS_KEYS == {0, 1, 0 - 1, 2, 0 - 2, 3}

OFFSETS ==
    [v \in OFFSETS_KEYS |->
        CASE v = 0 -> OFFSETS_0
          [] v = 1 -> OFFSETS_1
          [] v = 0 - 1 -> OFFSETS_m1
          [] v = 2 -> OFFSETS_2
          [] v = 0 - 2 -> OFFSETS_m2
          [] v = 3 -> OFFSETS_3]

RingRaise(error) == [kind |-> "raise", val |-> error]

\* line 742: `[3 or -3]` is the list [3]
NotImplementedRings == {3}

\* offset_ring without line 749: the flipped ring is not turned half round
offset_ring_NoHalfTurn(origin_d, origin_v, dist) ==
    IF origin_v \in NotImplementedRings THEN RingRaise("ValueError")
    ELSE LET flip == dist > 3
             d == IF flip THEN 6 - dist ELSE dist
             v == IF flip THEN 0 - origin_v ELSE origin_v
         IN  IF v \notin OFFSETS_KEYS THEN RingRaise("KeyError")
             ELSE IF d + 1 > Len(OFFSETS[v]) THEN RingRaise("IndexError")
             ELSE [kind |-> "list",
                   val |-> [k \in 1..Len(OFFSETS[v][d + 1]) |->
                              dir_vert_to_label(
                                  (origin_d + OFFSETS[v][d + 1][k][1]) % 12,
                                  v + OFFSETS[v][d + 1][k][2])]]

\* self.offset_ring(dist) for dist in 0..6: the list of labels, or the
\* error raised (ValueError at line 743, KeyError or IndexError when
\* _OFFSETS[origin_v][dist] has no such key or index at line 752)
offset_ring(origin_d, origin_v, dist) ==
    IF origin_v \in NotImplementedRings THEN RingRaise("ValueError")
    ELSE LET flip == dist > 3
             d == IF flip THEN 6 - dist ELSE dist
             v == IF flip THEN 0 - origin_v ELSE origin_v
             o == IF flip THEN origin_d + 6 ELSE origin_d
         IN  IF v \notin OFFSETS_KEYS THEN RingRaise("KeyError")
             ELSE IF d + 1 > Len(OFFSETS[v]) THEN RingRaise("IndexError")
             ELSE [kind |-> "list",
                   val |-> [k \in 1..Len(OFFSETS[v][d + 1]) |->
                              dir_vert_to_label(
                                  (o + OFFSETS[v][d + 1][k][1]) % 12,
                                  v + OFFSETS[v][d + 1][k][2])]]

----------------------------------------------------------------------------
(* shellstar: the target's movements (lines 860-886)                       *)
(*                                                                         *)
(* The tables HORIZONTAL and VERTICAL of movement_grid_remainders are not  *)
(* part of the sources.  A row of the remainder grid is a triple of marks, *)
(* each an asterisk or a blank, and the flight draws the row of a segment  *)
(* the first time it flies that segment: the tables being constant, that   *)
(* is the list target_movement of line 886 filled for one fixed table.     *)

Marks == {<<"*">>, <<" ">>}

MarkRows == {<<maj, min, vert>> : maj \in Marks, min \in Marks, vert \in Marks}

\* lines 867 and 870, 868 and 871: the fields of a header line after its
\* first two characters, without the last field
HeaderFields(line) == DropLast(SplitOn(SubSeq(line, 3, Len(line)), "|"), 1)

\* lines 878-885 for one grouping (_which, _each, _rem): the token it
\* appends to str_seq, if any.  `is` and `is not` compare one-character
\* strings and small integers, which CPython keeps as single objects.
GroupToken(which, each, rem) ==
    IF which /= <<" ">>
    THEN LET k == (IF each /= <<" ">> THEN IntValue(each) ELSE 0)
                  + (IF rem = <<"*">> THEN 1 ELSE 0)
         IN  IF k /= 0 THEN <<NatToStr(k) \o which>> ELSE <<>>
    ELSE <<>>

\* lines 875-886 for one row of the grid: the displacement of one segment
SegmentDisplacement(header, row) ==
    LET which == HeaderFields(header[1])
        each == HeaderFields(header[2])
    IN  Join(<<" ">>, GroupToken(which[1], each[1], row[1])
                      \o GroupToken(which[2], each[2], row[2])
                      \o GroupToken(which[3], each[3], row[3]))

\* the displacements segment i (from 0) may have for a crossing vector:
\* the empty string when the grid is "STILL" (`grid is "STILL"` compares
\* with the very string movement_grid returns), else one for each row
\* the table may hold
SegmentDisplacements(crossing) ==
    LET g == MovementGrid(crossing)
    IN  IF g.kind = "str" /\ g.val = STILL
        THEN {<<>>}
        ELSE {SegmentDisplacement(g.val.header, row) : row \in MarkRows}

----------------------------------------------------------------------------
(* shellstar: the closing distance                                         *)
(*                                                                         *)
(* distance_to is _cartesian_magnitude() less muzzle_velocity / 8 *        *)
(* segments_elapsed.  It is kept as [sq, minor, elapsed]: sq is 64 times   *)
(* the square of the magnitude with sin(pi/3)^2 taken as 3/4, minor the    *)
(* minor magnitude, by whose square times (3/4 - _SIN60^2), a positive     *)
(* amount below 10^-16, the Decimal square falls short of sq / 64, and     *)
(* elapsed the segments counted.  Eight times the distance is              *)
(* sqrt(sq - shortfall) - muzzle_velocity * elapsed; comparisons are made  *)
(* on the squares, and the shortfall decides only between values that are  *)
(* equal without it.                                                       *)

\* line 244 without the half of the minor magnitude: h_dist = major**2
MagnitudeSq64_NoHalf(uvp) ==
    LET mmv == major_minor_vertical(uvp)
        M == mmv.major[1]
        m == mmv.minor[1]
        v == mmv.vertical[1]
    IN  16 * ((2 * M) * (2 * M) + 3 * m * m + 4 * v * v)

\* 64 * (h_dist + vertical[0]**2) of lines 243-246 with sin^2 = 3/4
MagnitudeSq64(uvp) ==
    LET mmv == major_minor_vertical(uvp)
        M == mmv.major[1]
        m == mmv.minor[1]
        v == mmv.vertical[1]
    IN  16 * ((2 * M + m) * (2 * M + m) + 3 * m * m + 4 * v * v)

\* line 900, lines 927-928
ClosingDistance(uvp, elapsed) ==
    [sq |-> MagnitudeSq64(uvp),
     minor |-> major_minor_vertical(uvp).minor[1],
     elapsed |-> elapsed]

\* line 909 with the comparison turned round: distance_to < prev_distance
DistanceGreater_Inverted(d, p, mv) ==
    LET c == mv * (d.elapsed - p.elapsed)
        D == d.sq - p.sq - c * c
    IN  D < 0 \/ D * D < 4 * c * c * p.sq

\* line 909: distance_to > prev_distance
DistanceGreater(d, p, mv) ==
    LET c == mv * (d.elapsed - p.elapsed)
        D == d.sq - p.sq - c * c
    IN  /\ D >= 0
        /\ \/ D > 0 /\ D * D > 4 * c * c * p.sq
           \/ /\ D * D = 4 * c * c * p.sq
              /\ d.minor * d.minor * d.minor * d.minor * p.sq
                 < p.minor * p.minor * p.minor * p.minor * d.sq

\* lines 914 and 918 with the test distance_to < 0
DistanceHit_Below(d, mv) == d.sq < (mv * d.elapsed) * (mv * d.elapsed)

\* lines 914 and 918: distance_to <= 0
DistanceHit(d, mv) == d.sq <= (mv * d.elapsed) * (mv * d.elapsed)

\* sqrt(sq - shortfall) >= t
RootAtLeast(d, t) ==
    \/ t <= 0
    \/ d.sq > t * t
    \/ d.sq = t * t /\ d.minor = 0

\* line 914: floor(distance_to + _HALF_DECIMAL) for a distance above 0
DistanceRounded(d, mv) ==
    CHOOSE r \in 0..(d.sq \div 64 + 1) :
        /\ RootAtLeast(d, 8 * r + mv * d.elapsed - 4)
        /\ ~RootAtLeast(d, 8 * (r + 1) + mv * d.elapsed - 4)

\* lines 912-913 with segment_i printed as it is counted, from 0
SegmentTag_ZeroBased(show_segments, turn_i, segment_i, segments_elapsed) ==
    IF show_segments
    THEN NatToStr(turn_i) \o <<":">> \o NatToStr(segment_i)
    ELSE <<"+">> \o NatToStr(segments_elapsed)

\* lines 912-913: the tag of a line of the closure report
SegmentTag(show_segments, turn_i, segment_i, segments_elapsed) ==
    IF show_segments
    THEN NatToStr(turn_i) \o <<":">> \o NatToStr(segment_i + 1)
    ELSE <<"+">> \o NatToStr(segments_elapsed)

HIT == <<"H", "I", "T">>

\* lines 912-915: the line appended to closure_report
ClosureLine(tag, d, mv) ==
    tag \o <<" ">> \o (IF DistanceHit(d, mv) THEN HIT
                       ELSE NatToStr(DistanceRounded(d, mv)))

----------------------------------------------------------------------------
(* shellstar: the results (lines 937-1006) *)

ShellRaise(error) == [kind |-> "raise", val |-> error]

NoShot == [kind |-> "str", val |-> <<"N", "o", " ", "S", "h", "o", "t">>]

\* lines 960 and 966: '+' not in w and '-' not in w
NoSign(w) == ~InSeq("+", w) /\ ~InSeq("-", w)

\* lines 959-962 and 965-968: the first window of the list without a sign,
\* or None
PythonNone == <<"N", "o", "n", "e">>

FirstNoSign(windows) ==
    IF \E k \in 1..Len(windows) : NoSign(windows[k])
    THEN [found |-> TRUE,
          w |-> windows[CHOOSE k \in 1..Len(windows) :
                          /\ NoSign(windows[k])
                          /\ \A j \in 1..(k - 1) : ~NoSign(windows[j])]]
    ELSE [found |-> FALSE, w |-> PythonNone]

\* line 963 without the slice: the whole ring is searched again
SecondHalf_WholeRing(windows) == windows

\* line 963: orthagonal_windows[floor(len(orthagonal_windows)/2):]
SecondHalf(windows) ==
    SubSeq(windows, Len(windows) \div 2 + 1, Len(windows))

\* lines 955-971: the three lines of the evasion diagram for the ring of
\* windows three offsets from the impact window; len(None) raises TypeError
EvasionDiagram(impact_window, orthagonal_windows) ==
    LET up_window == orthagonal_windows[1]
        right == FirstNoSign(orthagonal_windows)
        half == SecondHalf(orthagonal_windows)
        down_window == half[1]
        left == FirstNoSign(half)
        pad == Repeat(" ", Len(left.w))
    IN  IF ~left.found THEN ShellRaise("TypeError")
        ELSE [kind |-> "lines",
              val |-> << pad \o <<" ", " ">> \o up_window,
                         left.w \o <<" ", "(">> \o impact_window
                             \o <<")", " ">> \o right.w,
                         pad \o <<" ", " ">> \o down_window >>]

AmberRing ==
    <<"E", "v", "a", "d", "e", " ", "i", "n", " ",
      "A", "m", "b", "e", "r", " ", "R", "i", "n", "g">>

\* lines 947-948: the words of impact_vector.bearing(); `.split()[1]`
\* raises IndexError when there is one word only ("NONE")
ImpactWords(vector_to_target) ==
    Split(VectorBearing(VectorSubUVP(VectorNew(<<>>).val, vector_to_target),
                        FALSE))

\* the evasion section with the test of line 950 made against "+++"
\* alone: the lower pole goes on to offset_ring
EvasionOptions_UpperPoleOnly(impact_window) ==
    IF impact_window = Repeat("+", 3)
    THEN [kind |-> "lines",
          val |-> << <<"(">> \o impact_window \o <<")">>, AmberRing >>]
    ELSE LET w == AVIDNew(impact_window)
         IN  IF w.kind = "raise" THEN ShellRaise(w.val)
             ELSE LET ring == offset_ring(w.val.direction, w.val.vertical, 3)
                  IN  IF ring.kind = "raise" THEN ShellRaise(ring.val)
                      ELSE EvasionDiagram(impact_window, ring.val)

\* lines 949-971: the lines of evasion_options, or the exception raised
\* (whatever AVID() and offset_ring raise, and TypeError by len(None))
EvasionOptions(impact_window) ==
    IF impact_window \in {Repeat("+", 3), Repeat("-", 3)}
    THEN [kind |-> "lines",
          val |-> << <<"(">> \o impact_window \o <<")">>, AmberRing >>]
    ELSE LET w == AVIDNew(impact_window)
         IN  IF w.kind = "raise" THEN ShellRaise(w.val)
             ELSE LET ring == offset_ring(w.val.direction, w.val.vertical, 3)
                  IN  IF ring.kind = "raise" THEN ShellRaise(ring.val)
                      ELSE EvasionDiagram(impact_window, ring.val)

----------------------------------------------------------------------------
(* shellstar: rate of closure and evasion info (lines 978-1006)           *)
(*                                                                         *)
(* impact_v is the length of seeker_xyz_v - target_xyz_v, where            *)
(* seeker_xyz_v is the final vector to the target stretched to the length  *)
(* muzzle_velocity.  With v the final vector, c the crossing vector and    *)
(* v.c their scalar product, impact_v^2 = mv^2 - 2 mv (v.c) / |v| + |c|^2; *)
(* impact_v is compared with a number t of quarters by the sign of         *)
(* L * |v| - R, L = 16 (mv^2 + |c|^2) - t^2 and R = 32 mv (v.c).           *)

\* lines 368-371: x is x_sin60 times _SIN60, y is y_halves halves, z is z
cartesian(uvp) ==
    [x_sin60 |-> uvp.U, y_halves |-> 0 - (2 * uvp.V + uvp.U), z |-> uvp.P]

\* the square of the length of cartesian() (lines 368-371), sin^2 = 3/4
CartesianSq(uvp) == uvp.U * uvp.U + uvp.U * uvp.V + uvp.V * uvp.V + uvp.P * uvp.P

\* four times the scalar product of two cartesian()
Dot4(a, b) ==
    3 * a.U * b.U + (2 * a.V + a.U) * (2 * b.V + b.U) + 4 * a.P * b.P

FloorSqrt(n) == CHOOSE f \in 0..n : f * f <= n /\ (f + 1) * (f + 1) > n

\* the sign of L * sqrt(Q) - R for L > 0, R > 0 and Q > 0, in steps that
\* keep every product small
SignRootPositive(L, Q, R) ==
    LET f == FloorSqrt(Q)
        r == R - L * f
        W == (Q - f * f) * L - 2 * f * r
    IN  IF L * (f + 1) <= R THEN 0 - 1
        ELSE IF L * f > R THEN 1
        ELSE IF L * f = R THEN (IF Q = f * f THEN 0 ELSE 1)
        ELSE IF W <= 0 THEN 0 - 1
        ELSE IF W >= L THEN 1
        ELSE IF L * W < r * r THEN 0 - 1
        ELSE IF L * W = r * r THEN 0
        ELSE 1

\* the sign of L * sqrt(Q) - R, for Q > 0
SignRoot(L, Q, R) ==
    IF L = 0 THEN (IF R > 0 THEN 0 - 1 ELSE IF R = 0 THEN 0 ELSE 1)
    ELSE IF L > 0
         THEN (IF R <= 0 THEN 1 ELSE SignRootPositive(L, Q, R))
         ELSE (IF R >= 0 THEN 0 - 1 ELSE 0 - SignRootPositive(0 - L, Q, 0 - R))

\* the sign of impact_v - quarters / 4 (lines 978-986)
ImpactSign(vector_to_target, crossing_vector, mv, quarters) ==
    SignRoot(16 * (mv * mv + CartesianSq(crossing_vector)) - quarters * quarters,
             CartesianSq(vector_to_target),
             8 * mv * Dot4(vector_to_target, crossing_vector))

\* to_string_rounded(impact_v / 8), lines 816-829: the whole number n when
\* the fraction is at most 0.25, n.5 when it is at most 0.75, else n + 1;
\* halves counts the bounds 0.25, 0.75, 1.25, ... that impact_v / 8 passes
RateOfClosure(vector_to_target, crossing_vector, mv) ==
    LET Above(i) == ImpactSign(vector_to_target, crossing_vector, mv,
                               16 * i + 8) = 1
        halves == CHOOSE j \in 0..(mv + CartesianSq(crossing_vector) + 1) :
                      /\ ~Above(j)
                      /\ \A i \in 0..(j - 1) : Above(i)
    IN  NatToStr(halves \div 2)
        \o (IF halves % 2 = 1 THEN <<".", "5">> ELSE <<>>)

\* lines 803-814: nine strings, the first two literals being one string
\* for want of a comma between them
TO_EVADE ==
    << <<"N", "/", "A", "0", "/", "1">>, <<"0", "/", "2">>, <<"1", "/", "3">>,
       <<"1", "/", "4">>, <<"1", "/", "5">>, <<"2", "/", "6">>,
       <<"2", "/", "7">>, <<"2", "/", "7">>, <<"2", "/", "8">> >>

\* lines 996-999: _TO_EVADE[segments_elapsed], a negative index counting
\* from the end, and the last entry on IndexError
ToEvade(segments_elapsed) ==
    LET n == Len(TO_EVADE)
    IN  IF segments_elapsed >= 0 /\ segments_elapsed < n
        THEN TO_EVADE[segments_elapsed + 1]
        ELSE IF segments_elapsed < 0 /\ segments_elapsed >= 0 - n
        THEN TO_EVADE[n + segments_elapsed + 1]
        ELSE TO_EVADE[n]

\* lines 978-1006: what shellstar returns once evasion_options is made,
\* segments_elapsed being already corrected (line 937)
ShellstarResults(vector_to_target, crossing_vector, mv, segments_elapsed, closure_report, evasion_options) ==
    IF ImpactSign(vector_to_target, crossing_vector, mv, 1) = 0 - 1
    THEN NoShot
    ELSE [kind |-> "str",
          val |-> Join(<<"\n">>,
              << Join(<<"\n">>, evasion_options),
                 <<">">> \o ToEvade(segments_elapsed)
                     \o <<" ", "t", "o", " ", "e", "v", "a", "d", "e">>,
                 Join(<<"\n">>, closure_report),
                 <<"R", "o", "C", ":", " ">>
                     \o RateOfClosure(vector_to_target, crossing_vector, mv) >>)]

----------------------------------------------------------------------------
(* get_bearing_vector_from_tile (lines 766-786); a location is the tuple   *)
(* <<j, k, u, v, h>> and radius the value of _TILE_RADIUS read at the call *)

\* lines 780-781 with the radius the module starts with in place of the
\* global
get_bearing_vector_from_tile_FirstRadius(radius, from, to) ==
    LET M == (to[2] - from[2]) + 2 * (to[1] - from[1])
        N == (to[2] - from[2]) - (to[1] - from[1])
    IN  [U |-> (to[3] - from[3]) + 8 * M,
         V |-> (to[4] - from[4]) + 8 * N,
         P |-> to[5] - from[5]]

get_bearing_vector_from_tile(radius, from, to) ==
    LET dj == to[1] - from[1]
        dk == to[2] - from[2]
        du == to[3] - from[3]
        dv == to[4] - from[4]
        dh == to[5] - from[5]
        M == dk + 2 * dj
        N == dk - dj
    IN  [U |-> du + radius * M,
         V |-> dv + radius * N,
         P |-> dh]

----------------------------------------------------------------------------
(* The state machine *)

NoCall ==
    [op |-> "none", s |-> <<>>, i |-> 0, j |-> 0, count |-> FALSE, dist |-> 0,
     mv |-> 0, segment |-> 0, r |-> 0, tiles |-> <<>>]
NoRet == [kind |-> "none", val |-> 0]

\* no shellstar call in progress
NoShell ==
    [pc |-> "none",
     vector_to_target |-> VectorNew(<<>>).val,
     crossing_vector |-> VectorNew(<<>>).val,
     muzzle_velocity |-> 0,
     target_movement |-> [i \in 1..8 |-> <<>>],
     drawn |-> {},
     show_segments |-> FALSE,
     segment_i |-> 0,
     turn_i |-> 0,
     segments_elapsed |-> 0,
     closure_report |-> <<>>,
     distance_to |-> ClosingDistance(VectorNew(<<>>).val, 0),
     prev_distance |-> ClosingDistance(VectorNew(<<>>).val, 0),
     impact_window |-> <<>>,
     evasion_options |-> <<>>]

Init ==
    /\ vecs = <<>>
    /\ avids = <<>>
    /\ call = NoCall
    /\ ret = NoRet
    /\ shell = NoShell
    /\ TILE_RADIUS = 8

\* v = Vector(vecstr)
VectorInit(vecstr) ==
    /\ Len(vecs) < MaxVecs
    /\ LET r == VectorNew(vecstr)
       IN  /\ call' = [NoCall EXCEPT !.op = "Vector", !.s = vecstr]
           /\ ret' = r
           /\ vecs' = IF r.kind = "Vector" THEN Append(vecs, r.val) ELSE vecs
    /\ UNCHANGED <<avids, shell, TILE_RADIUS>>

\* vecs[i] + vecs[j]
VectorAdd(i, j) ==
    /\ Len(vecs) < MaxVecs
    /\ LET uvp == VectorAddUVP(vecs[i], vecs[j])
       IN  /\ vecs' = Append(vecs, uvp)
           /\ ret' = [kind |-> "Vector", val |-> uvp]
    /\ call' = [NoCall EXCEPT !.op = "add", !.i = i, !.j = j]
    /\ UNCHANGED <<avids, shell, TILE_RADIUS>>

\* vecs[i] - vecs[j]
VectorSub(i, j) ==
    /\ Len(vecs) < MaxVecs
    /\ LET uvp == VectorSubUVP(vecs[i], vecs[j])
       IN  /\ vecs' = Append(vecs, uvp)
           /\ ret' = [kind |-> "Vector", val |-> uvp]
    /\ call' = [NoCall EXCEPT !.op = "sub", !.i = i, !.j = j]
    /\ UNCHANGED <<avids, shell, TILE_RADIUS>>

\* str(vecs[i])
VectorStrCall(i) ==
    /\ call' = [NoCall EXCEPT !.op = "str", !.i = i]
    /\ ret' = [kind |-> "str", val |-> VectorStr(vecs[i])]
    /\ UNCHANGED <<vecs, avids, shell, TILE_RADIUS>>

\* Vector(str(vecs[i])): the vector string an instance prints, typed back in
VectorRoundTrip(i) ==
    /\ Len(vecs) < MaxVecs
    /\ LET vecstr == VectorStr(vecs[i])
           r == VectorNew(vecstr)
       IN  /\ call' = [NoCall EXCEPT !.op = "Vector", !.s = vecstr, !.i = i]
           /\ ret' = r
           /\ vecs' = IF r.kind = "Vector" THEN Append(vecs, r.val) ELSE vecs
    /\ UNCHANGED <<avids, shell, TILE_RADIUS>>

\* vecs[i].bearing(count)
VectorBearingCall(i, count) ==
    /\ call' = [NoCall EXCEPT !.op = "bearing", !.i = i, !.count = count]
    /\ ret' = [kind |-> "str", val |-> VectorBearing(vecs[i], count)]
    /\ UNCHANGED <<vecs, avids, shell, TILE_RADIUS>>

\* vecs[i].movement_grid()
VectorMovementGridCall(i) ==
    /\ call' = [NoCall EXCEPT !.op = "movement_grid", !.i = i]
    /\ ret' = MovementGrid(vecs[i])
    /\ UNCHANGED <<vecs, avids, shell, TILE_RADIUS>>

\* vecs[i]._cartesian_magnitude(): the Decimal root of sq / 64, short by
\* the square of minor times (3/4 - _SIN60^2)
VectorCartesianMagnitudeCall(i) ==
    /\ call' = [NoCall EXCEPT !.op = "_cartesian_magnitude", !.i = i]
    /\ ret' = [kind |-> "Decimal",
               val |-> [sq |-> MagnitudeSq64(vecs[i]),
                        minor |-> major_minor_vertical(vecs[i]).minor[1]]]
    /\ UNCHANGED <<vecs, avids, shell, TILE_RADIUS>>

\* vecs[i].cartesian()
VectorCartesianCall(i) ==
    /\ call' = [NoCall EXCEPT !.op = "cartesian", !.i = i]
    /\ ret' = [kind |-> "dict", val |-> cartesian(vecs[i])]
    /\ UNCHANGED <<vecs, avids, shell, TILE_RADIUS>>

\* w = AVID(label)
AVIDInit(label) ==
    /\ Len(avids) < MaxAvids
    /\ LET r == AVIDNew(label)
       IN  /\ call' = [NoCall EXCEPT !.op = "AVID", !.s = label]
           /\ ret' = r
           /\ avids' = IF r.kind = "AVID" THEN Append(avids, r.val) ELSE avids
    /\ UNCHANGED <<vecs, shell, TILE_RADIUS>>

\* avids[i].to_tuple()
AVIDToTupleCall(i) ==
    /\ call' = [NoCall EXCEPT !.op = "to_tuple", !.i = i]
    /\ ret' = [kind |-> "tuple", val |-> <<avids[i].direction, avids[i].vertical>>]
    /\ UNCHANGED <<vecs, avids, shell, TILE_RADIUS>>

\* str(avids[i])
AVIDStrCall(i) ==
    /\ call' = [NoCall EXCEPT !.op = "AVID.str", !.i = i]
    /\ ret' = [kind |-> "str", val |-> avids[i].label]
    /\ UNCHANGED <<vecs, avids, shell, TILE_RADIUS>>

\* AVID(str(avids[i])): the label an instance prints, typed back in
AVIDRoundTrip(i) ==
    /\ Len(avids) < MaxAvids
    /\ LET label == avids[i].label
           r == AVIDNew(label)
       IN  /\ call' = [NoCall EXCEPT !.op = "AVID", !.s = label, !.i = i]
           /\ ret' = r
           /\ avids' = IF r.kind = "AVID" THEN Append(avids, r.val) ELSE avids
    /\ UNCHANGED <<vecs, shell, TILE_RADIUS>>

\* avids[i].offset_ring(dist)
AVIDOffsetRingCall(i, dist) ==
    /\ call' = [NoCall EXCEPT !.op = "offset_ring", !.i = i, !.dist = dist]
    /\ ret' = offset_ring(avids[i].direction, avids[i].vertical, dist)
    /\ UNCHANGED <<vecs, avids, shell, TILE_RADIUS>>

\* shellstar(vecs[i], vecs[j], mv, segment) up to the flight loop (lines
\* 860-902); segment 0 stands for None.  target_movement is filled with ''
\* when the grid is "STILL"; otherwise its entries are drawn in flight.
ShellstarCall(i, j, mv, segment) ==
    /\ shell.pc = "none"
    /\ call' = [NoCall EXCEPT !.op = "shellstar", !.i = i, !.j = j,
                              !.mv = mv, !.segment = segment]
    /\ ret' = NoRet
    /\ shell' =
        [pc |-> "flight",
         vector_to_target |-> vecs[i],
         crossing_vector |-> vecs[j],
         muzzle_velocity |-> mv,
         target_movement |-> [k \in 1..8 |-> <<>>],
         drawn |-> IF SegmentDisplacements(vecs[j]) = {<<>>} THEN 0..7 ELSE {},
         show_segments |-> segment /= 0,
         segment_i |-> IF segment /= 0 THEN (segment - 1) % 8 ELSE 0,
         turn_i |-> 0,
         segments_elapsed |-> 0,
         closure_report |-> <<>>,
         distance_to |-> ClosingDistance(vecs[i], 0),
         prev_distance |-> ClosingDistance(vecs[i], 0),
         impact_window |-> <<>>,
         evasion_options |-> <<>>]
    /\ UNCHANGED <<vecs, avids, TILE_RADIUS>>

\* lines 909-910: the closing distance grew, "No Shot" is returned
ShellstarNoShot ==
    /\ shell.pc = "flight"
    /\ DistanceGreater(shell.distance_to, shell.prev_distance,
                       shell.muzzle_velocity)
    /\ ret' = NoShot
    /\ shell' = [shell EXCEPT !.pc = "done"]
    /\ UNCHANGED <<vecs, avids, call, TILE_RADIUS>>

\* lines 911-920 and 937: the line of the hit is reported and the loop left
ShellstarHit ==
    /\ shell.pc = "flight"
    /\ ~DistanceGreater(shell.distance_to, shell.prev_distance,
                        shell.muzzle_velocity)
    /\ DistanceHit(shell.distance_to, shell.muzzle_velocity)
    /\ shell' = [shell EXCEPT
          !.pc = "results",
          !.closure_report =
              Append(@, ClosureLine(
                  SegmentTag(shell.show_segments, shell.turn_i,
                             shell.segment_i, shell.segments_elapsed),
                  shell.distance_to, shell.muzzle_velocity)),
          !.segments_elapsed = @ - 1]
    /\ UNCHANGED <<vecs, avids, call, ret, TILE_RADIUS>>

\* lines 911-934: one segment of flight short of the target.  The loop is
\* followed for MaxElapsed segments, more than any flight of SpecShell that
\* ends takes.
ShellstarSegment ==
    /\ shell.pc = "flight"
    /\ ~DistanceGreater(shell.distance_to, shell.prev_distance,
                        shell.muzzle_velocity)
    /\ ~DistanceHit(shell.distance_to, shell.muzzle_velocity)
    /\ shell.segments_elapsed < MaxElapsed
    /\ \E displacement \in
            (IF shell.segment_i \in shell.drawn
             THEN {shell.target_movement[shell.segment_i + 1]}
             ELSE SegmentDisplacements(shell.crossing_vector)) :
        LET elapsed == shell.segments_elapsed + 1
            vector == IF displacement /= <<>>
                      THEN VectorAddUVP(shell.vector_to_target,
                                        VectorNew(displacement).val)
                      ELSE shell.vector_to_target
        IN  shell' = [shell EXCEPT
              !.closure_report =
                  Append(@, ClosureLine(
                      SegmentTag(shell.show_segments, shell.turn_i,
                                 shell.segment_i, shell.segments_elapsed),
                      shell.distance_to, shell.muzzle_velocity)),
              !.prev_distance = shell.distance_to,
              !.segments_elapsed = elapsed,
              !.target_movement[shell.segment_i + 1] = displacement,
              !.drawn = @ \cup {shell.segment_i},
              !.vector_to_target = vector,
              !.distance_to = ClosingDistance(vector, elapsed),
              !.turn_i = IF shell.segment_i = 7 THEN @ + 1 ELSE @,
              !.segment_i = IF shell.segment_i = 7 THEN 0 ELSE @ + 1]
    /\ UNCHANGED <<vecs, avids, call, ret, TILE_RADIUS>>

\* lines 947-948: the impact window is read off the bearing of the negated
\* vector to the target; for the bearing "NONE" IndexError is raised
ShellstarImpactWindow ==
    /\ shell.pc = "results"
    /\ LET words == ImpactWords(shell.vector_to_target)
       IN  IF Len(words) < 2
           THEN /\ ret' = ShellRaise("IndexError")
                /\ shell' = [shell EXCEPT !.pc = "done"]
           ELSE /\ ret' = ret
                /\ shell' = [shell EXCEPT !.pc = "evasion",
                                          !.impact_window = words[2]]
    /\ UNCHANGED <<vecs, avids, call, TILE_RADIUS>>

\* lines 949-971: evasion_options is made, or an exception gets through
ShellstarEvasion ==
    /\ shell.pc = "evasion"
    /\ LET options == EvasionOptions(shell.impact_window)
       IN  IF options.kind = "raise"
           THEN /\ ret' = options
                /\ shell' = [shell EXCEPT !.pc = "done"]
           ELSE /\ ret' = ret
                /\ shell' = [shell EXCEPT !.pc = "closure",
                                          !.evasion_options = options.val]
    /\ UNCHANGED <<vecs, avids, call, TILE_RADIUS>>

\* lines 978-1006: the rate of closure is taken, and "No Shot" or the
\* report is returned
ShellstarReturn ==
    /\ shell.pc = "closure"
    /\ ret' = ShellstarResults(shell.vector_to_target, shell.crossing_vector,
                               shell.muzzle_velocity, shell.segments_elapsed,
                               shell.closure_report, shell.evasion_options)
    /\ shell' = [shell EXCEPT !.pc = "done"]
    /\ UNCHANGED <<vecs, avids, call, TILE_RADIUS>>

\* SET_TILE_RADIUS(r), lines 30-36
SetTileRadius(r) ==
    /\ call' = [NoCall EXCEPT !.op = "SET_TILE_RADIUS", !.r = r]
    /\ ret' = NoRet
    /\ TILE_RADIUS' = r
    /\ UNCHANGED <<vecs, avids, shell>>

\* get_bearing_vector_from_tile(*from, *to); the caller keeps the vectors
\* returned while there are fewer than MaxTileVecs of them
GetBearingVectorFromTile(from, to) ==
    LET v == get_bearing_vector_from_tile(TILE_RADIUS, from, to)
    IN  /\ call' = [NoCall EXCEPT !.op = "get_bearing_vector_from_tile",
                                  !.tiles = <<from, to>>]
        /\ ret' = [kind |-> "Vector", val |-> v]
        /\ vecs' = IF Len(vecs) < MaxTileVecs THEN Append(vecs, v) ELSE vecs
        /\ UNCHANGED <<avids, shell, TILE_RADIUS>>

\* the one-token vector strings typed in Spec, and the empty string
TokenStrings ==
    {<<>>} \cup {Append(NatToStr(n), CARDINALS[d]) :
                    n \in 0..MaxMag, d \in 1..Len(CARDINALS)}

Next ==
    \/ \E s \in TokenStrings : VectorInit(s)
    \/ \E i, j \in 1..Len(vecs) : VectorAdd(i, j)
    \/ \E i, j \in 1..Len(vecs) : VectorSub(i, j)

Spec == Init /\ [][Next]_vars

----------------------------------------------------------------------------
(* SpecParse: one vector string of up to MaxStrLen characters is typed,    *)
(* the instance is printed, and the printed string is typed back in.       *)

InputChars == {" ", "-", "+", "1", "A", "a", "C", "J"}

InputStrings == UNION {[1..n -> InputChars] : n \in 0..MaxStrLen}

NextParse ==
    \/ vecs = <<>> /\ call.op = "none" /\ \E s \in InputStrings : VectorInit(s)
    \/ \E i \in 1..Len(vecs) : call.op = "Vector" /\ VectorStrCall(i)
    \/ \E i \in 1..Len(vecs) : call.op = "str" /\ Len(vecs) = 1 /\ VectorRoundTrip(i)

SpecParse == Init /\ [][NextParse]_vars

----------------------------------------------------------------------------
(* SpecVector: one Vector with any (U, V, +) of up to MaxCoord in each     *)
(* coordinate (every such triple is the difference of two typed vectors),  *)
(* on which bearing and movement_grid are called.                          *)

Coords == (0 - MaxCoord)..MaxCoord

InitVector ==
    /\ vecs \in {<<[U |-> u, V |-> v, P |-> p]>> : u \in Coords, v \in Coords, p \in Coords}
    /\ avids = <<>>
    /\ call = NoCall
    /\ ret = NoRet
    /\ shell = NoShell
    /\ TILE_RADIUS = 8

NextVector ==
    \/ \E i \in 1..Len(vecs), count \in BOOLEAN : VectorBearingCall(i, count)
    \/ \E i \in 1..Len(vecs) : VectorMovementGridCall(i)

SpecVector == InitVector /\ [][NextVector]_vars

----------------------------------------------------------------------------
(* SpecAVID: one window label of up to MaxLabelLen characters is typed,    *)
(* the instance is read, and the label it prints is typed back in.         *)

LabelChars == {"+", "-", "/", "A", "B", "F", "a", "K", "*"}

LabelStrings == UNION {[1..n -> LabelChars] : n \in 0..MaxLabelLen}

NextAVID ==
    \/ avids = <<>> /\ call.op = "none" /\ \E s \in LabelStrings : AVIDInit(s)
    \/ \E i \in 1..Len(avids) : call.op = "AVID" /\ AVIDToTupleCall(i)
    \/ \E i \in 1..Len(avids) : call.op \in {"AVID", "to_tuple"} /\ AVIDStrCall(i)
    \/ \E i \in 1..Len(avids) : call.op = "AVID.str" /\ Len(avids) = 1 /\ AVIDRoundTrip(i)

SpecAVID == Init /\ [][NextAVID]_vars

----------------------------------------------------------------------------
(* SpecRing: one AVID, built from the label of any of the windows (twelve  *)
(* directions in the rings -2 to 2, and the two poles), on which           *)
(* offset_ring is called with each of the distances 0 to 6.                *)

WindowLabels ==
    {dir_vert_to_label(d, v) : d \in 0..11, v \in (0 - 3)..3}

RingDistances == 0..6

InitRing ==
    /\ vecs = <<>>
    /\ avids \in {<<AVIDNew(l).val>> : l \in WindowLabels}
    /\ call = NoCall
    /\ ret = NoRet
    /\ shell = NoShell
    /\ TILE_RADIUS = 8

NextRing ==
    \/ \E i \in 1..Len(avids), dist \in RingDistances : AVIDOffsetRingCall(i, dist)
    \/ \E i \in 1..Len(avids) : AVIDStrCall(i)

SpecRing == InitRing /\ [][NextRing]_vars

----------------------------------------------------------------------------
(* SpecMagnitude: one Vector with any (U, V, +) of up to MaxCoord in each  *)
(* coordinate, of which the magnitude and the cartesian components are     *)
(* taken.                                                                  *)

NextMagnitude ==
    \/ \E i \in 1..Len(vecs) : VectorCartesianMagnitudeCall(i)
    \/ \E i \in 1..Len(vecs) : VectorCartesianCall(i)

SpecMagnitude == InitVector /\ [][NextMagnitude]_vars

----------------------------------------------------------------------------
(* SpecTile: the tile radius is set and locations are converted, in any    *)
(* order, and the vectors kept are printed and asked for their bearing.    *)

Radii == {0, 6, 8}

FromTiles == {<<1, 0, 1, 0, 1>>}

ToTiles ==
    {<<j, k, u, v, h>> : j \in 0..1, k \in 0..1, u \in 0..1, v \in 0..1,
                         h \in 0..1}

NextTile ==
    \/ \E r \in Radii : SetTileRadius(r)
    \/ \E from \in FromTiles, to \in ToTiles :
          GetBearingVectorFromTile(from, to)
    \/ \E i \in 1..Len(vecs) : VectorStrCall(i)
    \/ \E i \in 1..Len(vecs) : VectorBearingCall(i, FALSE)

SpecTile == Init /\ [][NextTile]_vars

----------------------------------------------------------------------------
(* SpecShell: one call of shellstar.  The vector to the target has any     *)
(* (U, V, +) of up to MaxShellCoord in each coordinate, the crossing       *)
(* vector is typed, and the flight is followed segment by segment.         *)

ShellCoords == (0 - MaxShellCoord)..MaxShellCoord

CrossingStrings ==
    { <<>>,
      <<"8", "A">>,
      <<"1", "-">> }

MuzzleVelocities == {0, 4, 8}

\* 0 for no launch segment
LaunchSegments == {0, 8}

InitShell ==
    /\ vecs \in {<<[U |-> u, V |-> v, P |-> p], VectorNew(c).val>> :
                    u \in ShellCoords, v \in ShellCoords, p \in ShellCoords,
                    c \in CrossingStrings}
    /\ avids = <<>>
    /\ call = NoCall
    /\ ret = NoRet
    /\ shell = NoShell
    /\ TILE_RADIUS = 8

NextShell ==
    \/ \E mv \in MuzzleVelocities, segment \in LaunchSegments :
          ShellstarCall(1, 2, mv, segment)
    \/ ShellstarNoShot
    \/ ShellstarHit
    \/ ShellstarSegment
    \/ ShellstarImpactWindow
    \/ ShellstarEvasion
    \/ ShellstarReturn

SpecShell == InitShell /\ [][NextShell]_vars

----------------------------------------------------------------------------
(* Properties *)

HorizontalSet == {CARDINAL_H[k] : k \in 1..Len(CARDINAL_H)}

\* 60 degrees apart on the hexagon: A-B, B-C, C-D, D-E, E-F or F-A
Adjacent(a, b) == (HIndex(a) - HIndex(b)) % 6 \in {1, 5}

NonZeroH(vectors) == {d \in HorizontalSet : vectors[d] /= 0}

ZeroUVP == [U |-> 0, V |-> 0, P |-> 0]

CanonicalDecomposition(uvp) ==
    LET vectors == vectors_from_uvp(uvp)
        mmv == major_minor_vertical(uvp)
        nz == NonZeroH(vectors)
    IN  /\ \A d \in CardinalSet : vectors[d] >= 0
        /\ Cardinality(nz) <= 2
        /\ \A a, b \in nz : a /= b => Adjacent(a, b)
        /\ ~(vectors["+"] /= 0 /\ vectors["-"] /= 0)
        /\ mmv.major[1] >= 0 /\ mmv.minor[1] >= 0 /\ mmv.vertical[1] >= 0
        /\ mmv.minor[1] > 0 =>
              /\ mmv.major[1] >= mmv.minor[1]
              /\ Adjacent(mmv.major[2], mmv.minor[2])
        /\ nz = {d \in {mmv.major[2]} : mmv.major[1] > 0}
                \cup {d \in {mmv.minor[2]} : mmv.minor[1] > 0}

\* C1: every Vector alive, typed in or produced by additions and
\* subtractions, decomposes into non-negative magnitudes with at most two
\* non-zero horizontal directions, adjacent when there are two, and at most
\* one non-zero vertical direction.
C1_CanonicalDecomposition ==
    \A k \in 1..Len(vecs) : CanonicalDecomposition(vecs[k])

\* a sum of two single-direction vectors 120 degrees apart (A and C, say)
\* that leaves two non-zero horizontal directions
C1_Witness ==
    /\ call.op = "add"
    /\ LET a == NonZeroH(vectors_from_uvp(vecs[call.i]))
           b == NonZeroH(vectors_from_uvp(vecs[call.j]))
       IN  /\ Cardinality(a) = 1 /\ Cardinality(b) = 1
           /\ \E x \in a, y \in b : (HIndex(x) - HIndex(y)) % 6 \in {2, 4}
    /\ Cardinality(NonZeroH(vectors_from_uvp(vecs[Len(vecs)]))) = 2

\* C2: typing back the string an instance prints gives a Vector with the
\* same (U, V, +) triple, the zero vector included.
C2_RoundTrip ==
    (call.op = "Vector" /\ call.i > 0) =>
        (ret.kind = "Vector" /\ ret.val = vecs[call.i])

TokDir(t) == UpperChar(t[Len(t)])
TokPre(t) == DropLast(t, 1)

NegativeMagnitude(t) ==
    /\ Len(TokPre(t)) >= 2
    /\ TokPre(t)[1] = "-"
    /\ AllDigits(Tail(TokPre(t)))
    /\ DigitsToNat(Tail(TokPre(t))) > 0

NoNumericPrefix(t) ==
    ~ \/ AllDigits(TokPre(t))
      \/ Len(TokPre(t)) >= 2 /\ TokPre(t)[1] \in {"+", "-"} /\ AllDigits(Tail(TokPre(t)))

BadDirection(t) == TokDir(t) \notin {"A", "B", "C", "D", "E", "F", "+", "-"}

Malformed(s) ==
    LET toks == Split(s)
    IN  \E k \in 1..Len(toks) :
            \/ NegativeMagnitude(toks[k])
            \/ NoNumericPrefix(toks[k])
            \/ BadDirection(toks[k])
            \/ \E j \in 1..(k - 1) : TokDir(toks[j]) = TokDir(toks[k])

Blank(s) == \A k \in 1..Len(s) : s[k] = " "

\* C3: a typed vector string with a negative magnitude, a repeated
\* direction, a direction outside A..F, +, -, no numeric prefix or no
\* direction letter raises ValueError and constructs no Vector; an empty or
\* blank string constructs the zero vector.
C3_MalformedRaises ==
    (call.op = "Vector" /\ call.i = 0) =>
        /\ Malformed(call.s) =>
              (ret.kind = "raise" /\ ret.val = "ValueError" /\ vecs = <<>>)
        /\ Blank(call.s) =>
              (ret.kind = "Vector" /\ ret.val = ZeroUVP /\ vecs = <<ZeroUVP>>)

\* "1A 1a": the second token repeats the first one's direction in the other
\* letter case
C3_Witness ==
    /\ call.op = "Vector"
    /\ call.s = <<"1", "A", " ", "1", "a">>
    /\ ret.kind = "raise"
    /\ vecs = <<>>

\* C4: v1 + v2 and v1 - v2 construct a new Vector holding the componentwise
\* sum or difference and leave every Vector alive before, the operands
\* included, as it was; addition is commutative and associative with the
\* zero vector as identity, and v1 - v2 = v1 + (zero - v2).
C4_AddSubFrame ==
    [][ /\ call'.op \in {"add", "sub"} =>
            /\ Len(vecs') = Len(vecs) + 1
            /\ SubSeq(vecs', 1, Len(vecs)) = vecs
            /\ LET a == vecs[call'.i]
                   b == vecs[call'.j]
                   r == vecs'[Len(vecs')]
                   sgn == IF call'.op = "add" THEN 1 ELSE 0 - 1
               IN  /\ r.U = a.U + sgn * b.U
                   /\ r.V = a.V + sgn * b.V
                   /\ r.P = a.P + sgn * b.P
                   /\ ret' = [kind |-> "Vector", val |-> r]
        /\ \A i, j \in 1..Len(vecs) :
            /\ VectorAddUVP(vecs[i], vecs[j]) = VectorAddUVP(vecs[j], vecs[i])
            /\ VectorAddUVP(vecs[i], VectorNew(<<>>).val) = vecs[i]
            /\ VectorSubUVP(vecs[i], vecs[j])
                 = VectorAddUVP(vecs[i], VectorSubUVP(VectorNew(<<>>).val, vecs[j]))
            /\ \A k \in 1..Len(vecs) :
                 VectorAddUVP(VectorAddUVP(vecs[i], vecs[j]), vecs[k])
                   = VectorAddUVP(vecs[i], VectorAddUVP(vecs[j], vecs[k]))
      ]_vars

\* a difference of two distinct non-zero vectors that equals neither operand
C4_Witness ==
    /\ call.op = "sub"
    /\ call.i /= call.j
    /\ vecs[call.i] /= ZeroUVP
    /\ vecs[call.j] /= ZeroUVP
    /\ vecs[call.j].P /= 0
    /\ vecs[Len(vecs)] \notin {vecs[call.i], vecs[call.j]}

----------------------------------------------------------------------------
(* Properties of bearing and movement_grid, read off the returned strings *)

IsSign(c) == c \in {"+", "-"}

\* the number of '+' and '-' characters a string ends with
RECURSIVE TrailingSigns(_)
TrailingSigns(w) ==
    IF w /= <<>> /\ IsSign(w[Len(w)]) THEN 1 + TrailingSigns(DropLast(w, 1)) ELSE 0

WindowDirPart(w) == DropLast(w, TrailingSigns(w))
WindowSuffix(w) == SubSeq(w, Len(w) - TrailingSigns(w) + 1, Len(w))

\* the decomposition of the Vector the last call was made on
CallMMV == major_minor_vertical(vecs[call.i])

\* "<distance> <window>" as bearing returned it
RetDistance == Split(ret.val)[1]
RetWindow == Split(ret.val)[2]

EdgeEntries == {WINDOWS_H[k] : k \in {k \in 1..Len(WINDOWS_H) : Len(WINDOWS_H[k]) = 3}}

\* C5: for a non-zero major and a height tier below 3, the window's
\* direction is an edge entry of _WINDOWS_H (A/B, B/C, C/D, D/E, E/F, F/A)
\* exactly when 3*minor >= major, and the major's letter otherwise.
C5_EdgeLabelClockwise ==
    (call.op = "bearing" /\ CallMMV.major[1] /= 0
        /\ WindowDirPart(RetWindow) /= <<>>) =>
        IF 3 * CallMMV.minor[1] >= CallMMV.major[1]
        THEN WindowDirPart(RetWindow) \in EdgeEntries
        ELSE WindowDirPart(RetWindow) = <<CallMMV.major[2]>>

\* the squared horizontal distance: major^2 + major*minor + minor^2, or
\* (major + minor)^2 in count mode
ExactHSq(mmv, count) ==
    IF count
    THEN (mmv.major[1] + mmv.minor[1]) * (mmv.major[1] + mmv.minor[1])
    ELSE mmv.major[1] * mmv.major[1] + mmv.major[1] * mmv.minor[1]
         + mmv.minor[1] * mmv.minor[1]

\* how many of |4v| > |h|, |v| > |h|, |v| >= |4h| hold
ExactTier(h_sq, v) ==
    (IF 16 * v * v > h_sq THEN 1 ELSE 0)
    + (IF v * v > h_sq THEN 1 ELSE 0)
    + (IF v * v >= 16 * h_sq THEN 1 ELSE 0)

\* C6: for a non-zero major the window ends with the vertical sign repeated
\* as many times as thresholds hold, and with three the window is the bare
\* '+++' or '---'; the zero vector reports 'NONE' and a purely vertical one
\* its magnitude and '+++' or '---'.
C6_HeightTier ==
    call.op = "bearing" =>
        LET mmv == CallMMV
            tier == ExactTier(ExactHSq(mmv, call.count), mmv.vertical[1])
        IN  IF mmv.major[1] /= 0
            THEN /\ WindowSuffix(RetWindow) = Repeat(mmv.vertical[2], tier)
                 /\ (tier = 3) = (WindowDirPart(RetWindow) = <<>>)
            ELSE IF mmv.vertical[1] = 0
            THEN ret.val = NONE
            ELSE ret.val = NatToStr(mmv.vertical[1]) \o <<" ">>
                              \o Repeat(mmv.vertical[2], 3)

\* sqrt(n) rounded half-up: the k with k - 1/2 <= sqrt(n) < k + 1/2
RoundHalfUpSqrt(n) ==
    CHOOSE k \in 0..(n + 1) :
        /\ 4 * n < (2 * k + 1) * (2 * k + 1)
        /\ k > 0 => (2 * k - 1) * (2 * k - 1) <= 4 * n

\* C7: for a non-zero major the distance printed is sqrt(h^2 + v^2) rounded
\* half-up, with h^2 = major^2 + major*minor + minor^2, or h = major + minor
\* in count mode.
C7_DistanceRounded ==
    (call.op = "bearing" /\ CallMMV.major[1] /= 0) =>
        /\ AllDigits(RetDistance)
        /\ DigitsToNat(RetDistance)
             = RoundHalfUpSqrt(ExactHSq(CallMMV, call.count)
                               + CallMMV.vertical[1] * CallMMV.vertical[1])

\* "8D 5C" in exact mode: sqrt(129) = 11.36 is printed as 11, and the
\* window is the edge C/D
C7_Witness ==
    /\ call.op = "bearing"
    /\ ~call.count
    /\ CallMMV.major = <<8, "D">>
    /\ CallMMV.minor = <<5, "C">>
    /\ CallMMV.vertical[1] = 0
    /\ ret.val = <<"1", "1", " ", "C", "/", "D">>

\* a column of the grid's header rows and the remainder it is looked up by
ColumnAsClaimed(c, dir, each, rem) ==
    IF c[1] > 0
    THEN /\ dir = <<c[2]>>
         /\ each = NatToStr(c[1] \div 8)
         /\ rem = c[1] % 8
         /\ rem \in 0..7
    ELSE /\ dir = <<" ">>
         /\ each = <<" ">>
         /\ rem = 0

\* C8: movement_grid returns 'STILL' exactly for the zero vector; otherwise
\* a direction row, an 'each' row and rows 1..8, a used column showing
\* floor(magnitude/8) and looked up by magnitude mod 8, an unused column
\* blank in both header rows.
C8_MovementGrid ==
    call.op = "movement_grid" =>
        /\ (ret.kind = "str") = (vecs[call.i] = ZeroUVP)
        /\ ret.kind = "str" => ret.val = STILL
        /\ ret.kind /= "str" =>
            LET mmv == CallMMV
                dirs == SplitOn(ret.val.header[1], "|")
                each == SplitOn(ret.val.header[2], "|")
                grid == ret.val.grid
            IN  /\ ret.kind = "grid"
                /\ Len(ret.val.header) = 2
                /\ Len(dirs) = 5 /\ Len(each) = 5
                /\ dirs[1] = <<" ">> /\ each[1] = <<" ">>
                /\ dirs[5] = <<>> /\ each[5] = <<>>
                /\ Len(grid) = 8
                /\ \A k \in 1..8 :
                    /\ grid[k].seg = NatToStr(k)
                    /\ grid[k].h[3] = k - 1
                    /\ grid[k].v[3] = k - 1
                    /\ ColumnAsClaimed(mmv.major, dirs[2], each[2], grid[k].h[1])
                    /\ ColumnAsClaimed(mmv.minor, dirs[3], each[3], grid[k].h[2])
                    /\ ColumnAsClaimed(mmv.vertical, dirs[4], each[4], grid[k].v[2])
                    /\ grid[k].v[1] = (mmv.major[1] + mmv.minor[1]) % 8

\* a grid whose major moves one hex each segment and whose vertical column
\* is used while the minor column is blank
C8_Witness ==
    /\ call.op = "movement_grid"
    /\ ret.kind = "grid"
    /\ CallMMV.major[1] >= 8
    /\ CallMMV.minor[1] = 0
    /\ CallMMV.vertical[1] \in 1..7
    /\ ret.val.header[2] = <<" ", "|", "1", "|", " ", "|", "0", "|">>

----------------------------------------------------------------------------
(* Properties of AVID *)

UpperSet == {Uppers[k] : k \in 1..Len(Uppers)}
LowerOf == [c \in UpperSet |-> Lowers[CHOOSE k \in 1..Len(Uppers) : Uppers[k] = c]]
Lower(s) == [k \in 1..Len(s) |-> IF s[k] \in UpperSet THEN LowerOf[s[k]] ELSE s[k]]

\* the label with the two letters of its edge in the other order
SwapEdge(s) ==
    LET d == WindowDirPart(s)
    IN  IF Len(d) = 3 /\ d[2] = "/"
        THEN <<d[3], "/", d[1]>> \o WindowSuffix(s)
        ELSE s

CanonicalLabel(direction, ring) ==
    IF ring = 3 THEN <<"+", "+", "+">>
    ELSE IF ring = 0 - 3 THEN <<"-", "-", "-">>
    ELSE WINDOWS_H[direction + 1]
         \o [k \in 1..Abs(ring) |-> IF ring > 0 THEN "+" ELSE "-"]

\* C9: every AVID instance has direction in 0..11 and vertical in -3..3, a
\* pole having direction 0, and the canonical label; a typed label parses
\* to the same instance in either letter case and either order of an
\* edge's letters; the printed label parses back to the same instance.
C9_WindowCanonical ==
    /\ \A k \in 1..Len(avids) :
        /\ avids[k].direction \in 0..11
        /\ avids[k].vertical \in (0 - 3)..3
        /\ Abs(avids[k].vertical) = 3 => avids[k].direction = 0
        /\ avids[k].label = CanonicalLabel(avids[k].direction, avids[k].vertical)
    /\ (call.op = "AVID" /\ call.i = 0 /\ ret.kind = "AVID") =>
        \A t \in {Upper(call.s), Lower(call.s), SwapEdge(call.s),
                  SwapEdge(Lower(call.s))} : AVIDNew(t) = ret
    /\ (call.op = "AVID" /\ call.i > 0) =>
        (ret.kind = "AVID" /\ ret.val = avids[call.i])
    /\ call.op = "to_tuple" =>
        ret.val = <<avids[call.i].direction, avids[call.i].vertical>>
    /\ call.op = "AVID.str" => ret.val = avids[call.i].label

\* "a/F-": lower case and reversed, it is the window F/A- in direction 11
C9_Witness ==
    /\ call.op = "AVID"
    /\ call.s = <<"a", "/", "F", "-">>
    /\ ret.kind = "AVID"
    /\ ret.val = [direction |-> 11, vertical |-> 0 - 1,
                  label |-> <<"F", "/", "A", "-">>]

TableEntry(d) == \E k \in 1..Len(WINDOWS_H) : WINDOWS_H[k] = d

DirectionLetters == {"A", "B", "C", "D", "E", "F", "a", "b", "c", "d", "e", "f"}

BadLabel(s) ==
    LET d == WindowDirPart(s)
        n == TrailingSigns(s)
    IN  \/ d /= <<>> /\ ~TableEntry(Upper(d)) /\ ~TableEntry(WindowDirPart(SwapEdge(Upper(d))))
        \/ d /= <<>> /\ n >= 3
        \/ d = <<>> /\ s \notin {<<"+", "+", "+">>, <<"-", "-", "-">>}
        \/ \E k \in 1..Len(s) : s[k] \notin DirectionLetters \cup {"/", "+", "-"}

\* C10: a typed label whose direction part is no entry of _WINDOWS_H in
\* either letter order, that has three or more signs after a direction, is
\* signs alone other than '+++' and '---', or holds a stray character
\* raises ValueError and constructs no AVID.
C10_BadLabelRaises ==
    (call.op = "AVID" /\ call.i = 0 /\ BadLabel(call.s)) =>
        (ret.kind = "raise" /\ ret.val = "ValueError" /\ avids = <<>>)

\* "B/F": two direction letters that share no edge
C10_Witness ==
    /\ call.op = "AVID"
    /\ call.s = <<"B", "/", "F">>
    /\ ret.kind = "raise"
    /\ avids = <<>>

----------------------------------------------------------------------------
(* Properties of AVID.offset_ring *)

Pole(ring) == Abs(ring) = 3

RingCall == call.op = "offset_ring"
RingOrigin == avids[call.i]

ValidWindow(w) ==
    \E d \in 0..11, r \in (0 - 3)..3 : w = CanonicalLabel(d, r)

\* C12: for a window that is not a pole and every distance 0 to 6,
\* offset_ring returns a list that is not empty, and every label of the
\* list is a valid window: an entry of the direction table with no, one or
\* two signs, or a pole.
C12_RingOfValidWindows ==
    (RingCall /\ ~Pole(RingOrigin.vertical)) =>
        /\ ret.kind = "list"
        /\ Len(ret.val) >= 1
        /\ \A k \in 1..Len(ret.val) : ValidWindow(ret.val[k])

\* C13: for a pole, '+++' as well as '---', and every distance 0 to 6,
\* offset_ring raises the ValueError "not yet implemented" and returns no
\* list.
C13_PoleRaises ==
    (RingCall /\ Pole(RingOrigin.vertical)) =>
        (ret.kind = "raise" /\ ret.val = "ValueError")

----------------------------------------------------------------------------
(* shellstar: the flight *)

InFlight == shell.pc = "flight"

\* sqrt(a) > sqrt(b) + c for whole numbers a, b and c, c >= 0
RootExceeds(a, b, c) ==
    /\ a - b - c * c > 0
    /\ (a - b - c * c) * (a - b - c * c) > 4 * c * c * b

\* the closing distance, the Euclidean distance to the target less
\* muzzle_velocity / 8 for each segment elapsed, is strictly greater than
\* it was at the previous segment
ClosingDistanceGrew ==
    RootExceeds(shell.distance_to.sq, shell.prev_distance.sq,
                shell.muzzle_velocity
                    * (shell.distance_to.elapsed - shell.prev_distance.elapsed))

\* C14: in flight the closing distance is that of the vector to the target
\* and of the segments elapsed, a segment flown leaves the distance it
\* started from as the previous distance, and when the closing distance is
\* strictly greater than the previous one shellstar returns the string
\* "No Shot" and nothing of the report it has gathered
C14_DivergenceNoShot ==
    [][ /\ InFlight =>
            /\ shell.distance_to.sq = 64 * CartesianSq(shell.vector_to_target)
            /\ shell.distance_to.elapsed = shell.segments_elapsed
        /\ (InFlight /\ shell'.pc = "flight") =>
            shell'.prev_distance = shell.distance_to
        /\ (InFlight /\ ClosingDistanceGrew) =>
            /\ shell'.pc = "done"
            /\ ret'.kind = "str"
            /\ ret'.val = <<"N", "o", " ", "S", "h", "o", "t">> ]_vars

\* a flight with lines reported has returned "No Shot" on a greater distance
C14_Witness ==
    /\ shell.pc = "done"
    /\ ClosingDistanceGrew
    /\ Len(shell.closure_report) >= 2
    /\ ret = NoShot

\* the loop of lines 908-935 stands still: the muzzle velocity is 0 and no
\* segment moves the target, so that every further segment finds the same
\* vector to the target and the same closing distance, above 0 and not
\* greater than the previous one
FlightStalled ==
    /\ InFlight
    /\ shell.muzzle_velocity = 0
    /\ shell.drawn = 0..7
    /\ \A k \in 1..8 : shell.target_movement[k] = <<>>
    /\ shell.segments_elapsed >= 1
    /\ shell.distance_to.sq = shell.prev_distance.sq
    /\ ~DistanceHit(shell.distance_to, shell.muzzle_velocity)

\* C15: the flight loop of shellstar is left on every call, also when the
\* closing distance stays the same from one segment to the next: no flight
\* of muzzle velocity 0 to a target that never moves comes to stand still
\* short of the target
C15_FlightEnds == ~FlightStalled

----------------------------------------------------------------------------
(* shellstar: the report returned *)

\* shellstar has returned a report
Reported == shell.pc = "done" /\ ret.kind = "str" /\ ret /= NoShot

\* the lines of a report, and the place among them of ">... to evade"
LinesOf(report) == SplitOn(report, "\n")

ToEvadeAt(lines) ==
    CHOOSE k \in 1..Len(lines) : lines[k] /= <<>> /\ lines[k][1] = ">"

\* the lines before it: the evasion section
EvasionLinesOf(report) ==
    LET lines == LinesOf(report)
    IN  SubSeq(lines, 1, ToEvadeAt(lines) - 1)

\* the lines between it and the line of the rate of closure
ClosureLinesOf(report) ==
    LET lines == LinesOf(report)
    IN  SubSeq(lines, ToEvadeAt(lines) + 1, Len(lines) - 1)

\* the label claimed for closure line k (from 0) of a call with launch
\* segment s, 0 for none
LabelClaimed(s, k) ==
    IF s = 0 THEN <<"+">> \o NatToStr(k)
    ELSE NatToStr((s - 1 + k) \div 8) \o <<":">>
             \o NatToStr(((s - 1 + k) % 8) + 1)

\* C16: in a report the k-th closure line, k from 0, is labelled "+k" when
\* no launch segment is given and "turn:segment" for the launch segment s,
\* segment being ((s - 1 + k) mod 8) + 1 and turn floor((s - 1 + k) / 8)
C16_LineLabels ==
    Reported =>
        LET lines == ClosureLinesOf(ret.val)
        IN  /\ lines = shell.closure_report
            /\ \A k \in 1..Len(lines) :
                  Split(lines[k])[1] = LabelClaimed(call.segment, k - 1)

\* a report of a launch in segment 8 whose lines go round to segment 8 again
C16_Witness ==
    /\ Reported
    /\ call.segment = 8
    /\ LET lines == ClosureLinesOf(ret.val)
       IN  /\ Len(lines) >= 9
           /\ Split(lines[1])[1] = <<"0", ":", "8">>
           /\ Split(lines[2])[1] = <<"1", ":", "1">>
           /\ Split(lines[9])[1] = <<"1", ":", "8">>

\* shellstar was called with a crossing vector whose grid is "STILL" and a
\* positive muzzle velocity
StandStillCall ==
    /\ call.op = "shellstar"
    /\ MovementGrid(vecs[call.j]).kind = "str"
    /\ MovementGrid(vecs[call.j]).val = STILL
    /\ call.mv > 0

\* round-half-up of sqrt(sq64 / 64) - c / 8, when that is above 0
ExactRounded(sq64, c) ==
    CHOOSE r \in 0..(sq64 \div 64 + 1) :
        /\ (8 * r + c - 4 <= 0 \/ (8 * r + c - 4) * (8 * r + c - 4) <= sq64)
        /\ (8 * r + c + 4) * (8 * r + c + 4) > sq64

\* the first k with mv * k / 8 >= sqrt(sq64 / 64)
FirstHit(sq64, mv) ==
    CHOOSE k \in 0..(sq64 + 1) :
        /\ (mv * k) * (mv * k) >= sq64
        /\ \A j \in 0..(k - 1) : (mv * j) * (mv * j) < sq64

\* C17: with a STILL crossing vector and a positive muzzle velocity mv the
\* vector to the target never changes, closure line k (from 0) reports the
\* distance d0 - mv * k / 8 rounded half-up, d0 being the Euclidean length
\* of the vector to the target, and the line of the first k with
\* mv * k / 8 >= d0 reports HIT and is the last
C17_StandStill ==
    StandStillCall =>
        LET d0sq == 64 * CartesianSq(vecs[call.i])
            last == FirstHit(d0sq, call.mv)
        IN  /\ shell.vector_to_target = vecs[call.i]
            /\ Len(shell.closure_report) <= last + 1
            /\ shell.pc \notin {"none", "flight"} =>
                  Len(shell.closure_report) = last + 1
            /\ \A k \in 0..(Len(shell.closure_report) - 1) :
                  Split(shell.closure_report[k + 1])[2] =
                      IF k = last THEN HIT
                      ELSE NatToStr(ExactRounded(d0sq, call.mv * k))

\* the flight has ended on a hit and shellstar has returned or raised
HitMade ==
    /\ shell.pc = "done"
    /\ shell.closure_report /= <<>>
    /\ Split(shell.closure_report[Len(shell.closure_report)])[2] = HIT

\* the words of the bearing of the negated final vector to the target: the
\* second, if there is one, is the impact window
ImpactBearing ==
    Split(VectorBearing(VectorSubUVP(ZeroUVP, shell.vector_to_target), FALSE))

PoleWindows == {<<"+", "+", "+">>, <<"-", "-", "-">>}

PoleImpact ==
    HitMade /\ Len(ImpactBearing) >= 2 /\ ImpactBearing[2] \in PoleWindows

\* C18: on a hit whose impact window is a pole shellstar returns, and the
\* evasion section of its report is the pole in parentheses and the line
\* "Evade in Amber Ring", with no line of evasion windows
C18_PoleAmberRing ==
    PoleImpact =>
        /\ ret.kind = "str"
        /\ ret /= NoShot =>
              EvasionLinesOf(ret.val) =
                  << <<"(">> \o ImpactBearing[2] \o <<")">>,
                     <<"E", "v", "a", "d", "e", " ", "i", "n", " ",
                       "A", "m", "b", "e", "r", " ", "R", "i", "n", "g">> >>

\* a report of a hit from straight above, whose impact window is "---"
C18_Witness ==
    /\ PoleImpact
    /\ ImpactBearing[2] = <<"-", "-", "-">>
    /\ Reported
    /\ Len(EvasionLinesOf(ret.val)) = 2

NonPoleImpact ==
    HitMade /\ Len(ImpactBearing) >= 2 /\ ImpactBearing[2] \notin PoleWindows

\* the impact window as an AVID, and its ring of windows at distance 3
ImpactAVID == AVIDNew(ImpactBearing[2]).val

ImpactRing ==
    offset_ring(ImpactAVID.direction, ImpactAVID.vertical, 3)

\* the windows of one cardinal letter, and the windows without a sign (the
\* cardinals and the edges of the amber ring)
PureCardinals == {<<c>> : c \in HorizontalSet}

Unsigned(windows) ==
    {windows[k] : k \in {k \in 1..Len(windows) :
                            \A i \in 1..Len(windows[k]) :
                                windows[k][i] \notin {"+", "-"}}}

HasIn(windows, S) == \E k \in 1..Len(windows) : windows[k] \in S

FirstIn(windows, S) ==
    windows[CHOOSE k \in 1..Len(windows) :
                /\ windows[k] \in S
                /\ \A j \in 1..(k - 1) : windows[j] \notin S]

\* the words of the three lines of an evasion section made of the ring:
\* up is its first entry, down its midpoint entry, right the first entry
\* of the ring in S and left the first entry of its second half in S
DiagramOf(lines, ring, S, impact_window) ==
    LET mid == Len(ring) \div 2
        half == SubSeq(ring, mid + 1, Len(ring))
    IN  /\ Len(lines) = 3
        /\ Split(lines[1]) = <<ring[1]>>
        /\ Split(lines[3]) = <<ring[mid + 1]>>
        /\ HasIn(ring, S)
        /\ HasIn(half, S)
        /\ Split(lines[2]) = << FirstIn(half, S),
                                <<"(">> \o impact_window \o <<")">>,
                                FirstIn(ring, S) >>

ThrustTable ==
    << <<"N", "/", "A">>, <<"0", "/", "1">>, <<"0", "/", "2">>,
       <<"1", "/", "3">>, <<"1", "/", "4">>, <<"1", "/", "5">>,
       <<"2", "/", "6">>, <<"2", "/", "7">>, <<"2", "/", "7">>,
       <<"2", "/", "8">> >>

\* the segments elapsed at the HIT line, the last closure line
HitSegments == Len(shell.closure_report) - 1

\* C20: in the report of a hit whose HIT line is at n elapsed segments,
\* n >= 1, the line "to evade" shows entry n of the thrust table, and its
\* last entry when n is beyond the table
C20_ToEvade ==
    (Reported /\ HitSegments >= 1) =>
        LET lines == LinesOf(ret.val)
            n == HitSegments
        IN  lines[ToEvadeAt(lines)] =
                <<">">>
                \o ThrustTable[IF n < Len(ThrustTable) THEN n + 1
                               ELSE Len(ThrustTable)]
                \o <<" ", "t", "o", " ", "e", "v", "a", "d", "e">>

----------------------------------------------------------------------------
(* Tile coordinates *)

\* the difference of the two locations of the call made by the step
TileDelta(k) == call'.tiles[2][k] - call'.tiles[1][k]

\* what a step of each kind does to the radius and the vectors
TileStep ==
    /\ call'.op = "get_bearing_vector_from_tile" =>
          /\ ret'.kind = "Vector"
          /\ ret'.val.U = TileDelta(3)
                 + TILE_RADIUS * (TileDelta(2) + 2 * TileDelta(1))
          /\ ret'.val.V = TileDelta(4)
                 + TILE_RADIUS * (TileDelta(2) - TileDelta(1))
          /\ ret'.val.P = TileDelta(5)
          /\ TILE_RADIUS' = TILE_RADIUS
          /\ \A i \in 1..Len(vecs) : vecs'[i] = vecs[i]
    /\ call'.op = "SET_TILE_RADIUS" =>
          /\ TILE_RADIUS' = call'.r
          /\ vecs' = vecs
    /\ call'.op = "str" =>
          /\ ret'.val = VectorStr(vecs[call'.i])
          /\ UNCHANGED <<vecs, TILE_RADIUS>>
    /\ call'.op = "bearing" =>
          /\ ret'.val = VectorBearing(vecs[call'.i], call'.count)
          /\ UNCHANGED <<vecs, TILE_RADIUS>>

\* C21: the module starts with the tile radius 8; a conversion returns the
\* vector U = du + R * (dk + 2 dj), V = dv + R * (dk - dj), Z = dh for the
\* radius R last set and leaves the radius and the vectors returned before
\* as they are; setting the radius changes no vector; and printing a
\* vector or taking its bearing neither reads nor changes the radius
C21_TileRadius == (TILE_RADIUS = 8) /\ [][TileStep]_vars

\* a vector converted with the radius 6 is kept, the radius is set to 8
\* and a conversion of other locations returns another vector
C21_Witness ==
    /\ call.op = "get_bearing_vector_from_tile"
    /\ TILE_RADIUS = 8
    /\ Len(vecs) = 1
    /\ vecs[1] = get_bearing_vector_from_tile(6, <<1, 0, 1, 0, 1>>,
                                               <<0, 1, 0, 1, 0>>)
    /\ ret.val = get_bearing_vector_from_tile(8, <<1, 0, 1, 0, 1>>,
                                              <<0, 0, 0, 1, 1>>)
    /\ ret.val /= get_bearing_vector_from_tile(6, <<1, 0, 1, 0, 1>>,
                                               <<0, 0, 0, 1, 1>>)

----------------------------------------------------------------------------
(* shellstar: hits *)

\* C22: every call of shellstar whose flight ends on a hit returns a
\* string, the report or "No Shot", and raises nothing
C22_HitReturns == HitMade => ret.kind = "str"

\* the distance of a line is above 0: sqrt(sq / 64) > mv * elapsed / 8
PositiveDistance(d, mv) ==
    (mv * d.elapsed) * (mv * d.elapsed) < d.sq

\* the step appends one line to closure_report
LineAppended ==
    /\ Len(shell'.closure_report) = Len(shell.closure_report) + 1
    /\ SubSeq(shell'.closure_report, 1, Len(shell.closure_report))
           = shell.closure_report

\* what a step does to the closure report: nothing, or one line more, for
\* the segment the flight is at and the closing distance of that segment
ClosureStep ==
    /\ shell'.closure_report = shell.closure_report \/ LineAppended
    /\ LineAppended =>
          LET line == Split(shell'.closure_report[Len(shell'.closure_report)])
              mv == shell.muzzle_velocity
          IN  /\ InFlight
              /\ line[1] = LabelClaimed(call.segment, Len(shell.closure_report))
              /\ shell.distance_to.elapsed = Len(shell.closure_report)
              /\ shell.closure_report = <<>> =>
                    shell.prev_distance = shell.distance_to
              /\ ~ClosingDistanceGrew
              /\ IF line[2] = HIT
                 THEN ~PositiveDistance(shell.distance_to, mv)
                      /\ shell'.pc = "results"
                 ELSE PositiveDistance(shell.distance_to, mv)
                      /\ shell'.pc = "flight"
                      /\ shell'.prev_distance = shell.distance_to

\* the lines gathered: HIT is on no line before the last, on none while
\* the flight lasts, and the report returned shows the lines gathered
ClosureLog ==
    LET lines == shell.closure_report
        n == Len(lines)
    IN  /\ \A k \in 1..(n - 1) : Split(lines[k])[2] /= HIT
        /\ InFlight /\ n > 0 => Split(lines[n])[2] /= HIT
        /\ Reported =>
              /\ ClosureLinesOf(ret.val) = lines
              /\ n > 0
              /\ Split(lines[n])[2] = HIT

\* C23: closure_report only grows, by one line a segment in the order of
\* the flight; the closing distance of a line is not greater than that of
\* the line before it; the distance of every line but the last is above 0;
\* and in a report returned one line is marked HIT, the last
C23_ClosureLines == []ClosureLog /\ [][ClosureStep]_vars

\* a report of four lines or more for a target that moved in the last
\* segment flown
C23_Witness ==
    /\ Reported
    /\ Len(shell.closure_report) >= 4
    /\ shell.distance_to.sq /= shell.prev_distance.sq

----------------------------------------------------------------------------
(* AVID.offset_ring: the shape of a ring *)

\* the windows of a list of labels, as (direction, ring)
WindowsOf(labels) ==
    {<<AVIDNew(labels[k]).val.direction, AVIDNew(labels[k]).val.vertical>> :
        k \in 1..Len(labels)}

\* the window across the meridian of direction d; a pole is its own image
Mirror(d, w) ==
    IF Pole(w[2]) THEN w ELSE <<(2 * d + 12 - w[1]) % 12, w[2]>>

\* C24: a ring returned for a window that is not a pole holds, with every
\* window, that of the same ring of the AVID at the direction as far on
\* the other side of the origin's direction
C24_MirrorSymmetry ==
    (RingCall /\ ~Pole(RingOrigin.vertical) /\ ret.kind = "list") =>
        LET S == WindowsOf(ret.val)
        IN  \A w \in S : Mirror(RingOrigin.direction, w) \in S

----------------------------------------------------------------------------
(* The length of a Vector *)

\* U^2 + U V + V^2 + Z^2
HexNormSq(uvp) ==
    uvp.U * uvp.U + uvp.U * uvp.V + uvp.V * uvp.V + uvp.P * uvp.P

\* C25: for every (U, V, Z), with sin(60 degrees)^2 taken as 3/4, the
\* square of _cartesian_magnitude() is major^2 + major * minor + minor^2 +
\* vertical^2 and equals U^2 + U V + V^2 + Z^2, the sum of the squares of
\* the x, y and z of cartesian() and the square used for the rate of
\* closure
C25_SameLength ==
    call.op \in {"_cartesian_magnitude", "cartesian"} =>
        LET uvp == vecs[call.i]
            mmv == major_minor_vertical(uvp)
            M == mmv.major[1]
            m == mmv.minor[1]
            v == mmv.vertical[1]
            c == cartesian(uvp)
        IN  /\ MagnitudeSq64(uvp) = 64 * (M * M + M * m + m * m + v * v)
            /\ M * M + M * m + m * m + v * v = HexNormSq(uvp)
            /\ 3 * c.x_sin60 * c.x_sin60 + c.y_halves * c.y_halves
                   + 4 * c.z * c.z = 4 * HexNormSq(uvp)
            /\ CartesianSq(uvp) = HexNormSq(uvp)
            /\ call.op = "_cartesian_magnitude" =>
                  ret.kind = "Decimal" /\ ret.val.sq = 64 * HexNormSq(uvp)
            /\ call.op = "cartesian" =>
                  ret.kind = "dict" /\ ret.val = c

\* the magnitude of "1B 1C 1+" (U = 2, V = -1, Z = 1) is taken: 2
C25_Witness ==
    /\ call.op = "_cartesian_magnitude"
    /\ vecs[call.i] = [U |-> 2, V |-> 0 - 1, P |-> 1]
    /\ major_minor_vertical(vecs[call.i]).minor[1] = 1
    /\ ret.val.sq = 256

====
